---- MODULE Spec2Model ----
(***************************************************************************)
(* Model of the TivaTap reaction-time game front end.                      *)
(*                                                                         *)
(* Two programs share the round state machine: SP_user.py (single and      *)
(* two-player game, deferred round command, reveal timers) and             *)
(* SP_debug.py (single player, immediate round command, separate back      *)
(* button).  The variable `variant' selects the program; the fields of     *)
(* ReactionGameApp are the variables.                                      *)
(*                                                                         *)
(* Text is modelled as a sequence of one-character strings.                *)
(***************************************************************************)
EXTENDS Integers, Sequences, FiniteSets, TLC

(* ---------------------------------------------------------------------- *)
(* Bounds                                                                  *)
(* ---------------------------------------------------------------------- *)

\* longest timing sequence the model lets a session record
MaxTimes == 2

\* largest number of rounds the model selects for a session
MaxRounds == 5

\* number of sessions started in one run of the program
MaxSessions == 2

\* number of Tk timers pending at the same time
MaxTimers == 2

\* calls of update_leaderboard_entry in one run
MaxCalls == 3

\* entries of one board in the leaderboard files tried
MaxEntries == 1

\* bytes the port hands over in one run
MaxBytes == 5

\* the bytes the device sends in all
MaxWire == 6

(* ---------------------------------------------------------------------- *)
(* Text helpers                                                            *)
(* ---------------------------------------------------------------------- *)

Whitespace == {" ", "\t"}

DigitChars == {"0", "1", "2", "3", "4", "5", "6", "7", "8", "9"}

DigitVal(c) ==
    CASE c = "0" -> 0 [] c = "1" -> 1 [] c = "2" -> 2 [] c = "3" -> 3
      [] c = "4" -> 4 [] c = "5" -> 5 [] c = "6" -> 6 [] c = "7" -> 7
      [] c = "8" -> 8 [] c = "9" -> 9

\* str.strip(): drop leading and trailing whitespace
RECURSIVE LStrip(_)
LStrip(s) ==
    IF s # <<>> /\ Head(s) \in Whitespace THEN LStrip(Tail(s)) ELSE s

RECURSIVE RStrip(_)
RStrip(s) ==
    IF s # <<>> /\ s[Len(s)] \in Whitespace
    THEN RStrip(SubSeq(s, 1, Len(s) - 1))
    ELSE s

Strip(s) == RStrip(LStrip(s))

\* the digits part of a Python integer literal: digits, with single
\* underscores allowed between digits
DigitsOK(s) ==
    /\ s # <<>>
    /\ \A i \in DOMAIN s : s[i] \in DigitChars \cup {"_"}
    /\ s[1] # "_"
    /\ s[Len(s)] # "_"
    /\ \A i \in 1..(Len(s) - 1) : ~(s[i] = "_" /\ s[i + 1] = "_")

Unsigned(s) ==
    IF s # <<>> /\ Head(s) \in {"+", "-"} THEN Tail(s) ELSE s

\* int(text) does not raise ValueError
IsInt(text) == DigitsOK(Unsigned(Strip(text)))

RECURSIVE DigitsValue(_, _)
DigitsValue(s, acc) ==
    IF s = <<>> THEN acc
    ELSE IF Head(s) = "_" THEN DigitsValue(Tail(s), acc)
    ELSE DigitsValue(Tail(s), 10 * acc + DigitVal(Head(s)))

\* int(text), for text with IsInt(text)
ParseInt(text) ==
    LET s == Strip(text)
        v == DigitsValue(Unsigned(s), 0)
    IN  IF s # <<>> /\ Head(s) = "-" THEN 0 - v ELSE v

StartsWith(s, c) == s # <<>> /\ Head(s) = c

\* the decimal digit of a number below 10
DigitOf(n) ==
    CASE n = 0 -> "0" [] n = 1 -> "1" [] n = 2 -> "2" [] n = 3 -> "3"
      [] n = 4 -> "4" [] n = 5 -> "5" [] n = 6 -> "6" [] n = 7 -> "7"
      [] n = 8 -> "8" [] n = 9 -> "9"

(* ---------------------------------------------------------------------- *)
(* Arithmetic helpers                                                      *)
(* ---------------------------------------------------------------------- *)

RECURSIVE Sum(_)
Sum(s) == IF s = <<>> THEN 0 ELSE Head(s) + Sum(Tail(s))

Abs(n) == IF n < 0 THEN 0 - n ELSE n

RECURSIVE GCD(_, _)
GCD(a, b) == IF b = 0 THEN a ELSE GCD(b, a % b)

\* sum(times) / len(times) as an exact fraction <<numerator, denominator>>
\* in lowest terms; only evaluated for a non-empty sequence
Mean(times) ==
    LET n == Sum(times)
        d == Len(times)
        g == GCD(Abs(n), d)
    IN  <<n \div g, d \div g>>

\* x < y on averages
AvgLess(x, y) == x[1] * y[2] < y[1] * x[2]

(* ---------------------------------------------------------------------- *)
(* Inputs                                                                  *)
(* ---------------------------------------------------------------------- *)

\* the two programs
Variants == {"user", "debug"}

\* random.choice("RGBCMYW")
Colors == {"R", "G", "B", "C", "M", "Y", "W"}

\* random.randint(2, 6)
Numbers == 2..6

\* what the two random calls of one command may return
Draws == Colors \X Numbers

\* the draw followed where the content of the command is not looked at;
\* SpecCommand follows them all
SomeDraws == {<<"R", 2>>}

\* the bytes of a round command: f"S{color}{number}\n" in a single game,
\* f"M{color}{number}\n" otherwise
Command(mode, color, number) ==
    <<IF mode = "single" THEN "S" ELSE "M", color, DigitOf(number), "\n">>

\* texts typed into name_entry and player_a_entry
NameInputs == {<<>>, <<"p", " ">>}

\* texts typed into player_b_entry
NameInputsB == {<<>>, <<"q">>}

\* the keys of the leaderboard
Boards == {1, 5, 10}

\* values of the rounds radio buttons the model selects
RoundChoices == {r \in Boards : r <= MaxRounds}

\* values of rounds_var handed to on_start_game_clicked when the handler is
\* exercised on its own: those of the radio buttons and one that is not a
\* board
RoundInputs == RoundChoices \cup {7}

\* the message the reader publishes when a read fails
Sentinel == <<"[", "S", "e", "r", "]">>

\* lines taken from the receive queue
Msgs ==
    { <<"1">>, <<"2">>, <<" ", "1">>,
      <<"E", "0">>, <<"E", "1">>,
      <<"A", "1">>, <<"A", "3">>, <<"B", "2">>,
      <<"B", "x">>,
      <<"A", "E", "0">>, <<"B", "E", "1">>,
      <<>>, Sentinel }

E0 == <<"E", "0">>

E1 == <<"E", "1">>

(* ---------------------------------------------------------------------- *)
(* Values of the file                                                      *)
(* ---------------------------------------------------------------------- *)

\* str(rounds)
Str(rounds) ==
    CASE rounds = 1 -> "1" [] rounds = 5 -> "5" [] rounds = 10 -> "10"

\* the keys load_leaderboard looks up, in its order
BoardOrder == <<1, 5, 10>>

BoardKeys == {Str(rounds) : rounds \in Boards}

\* JSON values: a list with its items, a number, and the mark of a key
\* the object does not have
JList(items) == [type |-> "list", items |-> items]

JNumber == [type |-> "number", items |-> <<>>]

JAbsent == [type |-> "absent", items |-> <<>>]

\* the file: kind "missing" (os.path.exists is false), "unreadable" (open
\* or read raises IOError), "invalid_json" (json.load raises
\* JSONDecodeError), "not_object" (the JSON text is a number) or "object"
\* (a JSON object, boards giving the value under each key)
File(kind, boards) == [kind |-> kind, boards |-> boards]

NoBoards == [key \in BoardKeys |-> JAbsent]

MissingFile == File("missing", NoBoards)

(* ---------------------------------------------------------------------- *)
(* State                                                                   *)
(* ---------------------------------------------------------------------- *)

VARIABLES
    variant,             \* which program runs
    running,             \* the Tk main loop has not been destroyed
    ser,                 \* the serial port: "open" or "closed"
    dialog,              \* the askyesno confirmation is open
    screen,              \* the frame shown: "mode", "start" or "game"
    start_info,          \* text of start_info_label
    game_mode,           \* "none", "single" or "multiplayer"
    player_name,
    player_a_name,
    player_b_name,
    selected_rounds,
    current_round,
    round_times,
    player_a_times,
    player_b_times,
    waiting_for_result,
    btn_state,           \* start_round_button: "normal" or "disabled"
    btn_cmd,             \* start_round_button command: "start_round" or "back"
    status,              \* text of status_label
    last_result,         \* text of last_result_label
    winner,              \* winner shown: "", "A", "B" or "tie"
    leaderboard,         \* rounds -> sequence of <<name, average>>
    lb_entries,          \* rounds -> lines of the listbox lb_1, lb_5, lb_10
    file,                \* the leaderboard file
    timers,              \* pending master.after callbacks, oldest first
    session,             \* history: number of sessions started
    terminal,            \* history: how the current session ended, or "no"
    tx_count,            \* history: commands written since the session start
    tx_last,             \* the last command written to the port, <<>> if none
    submitted,           \* history: the calls of update_leaderboard_entry
    load_outcome,        \* history: how load_leaderboard ended, or "none"
    stop_event,          \* threading.Event: set or not
    reader_pc,           \* where the serial_reader thread stands
    buffer,              \* the bytes serial_reader holds back
    rx_queue,            \* the lines put and not yet taken, oldest first
    wire,                \* the bytes the port has yet to hand to a read
    delivered,           \* history: the bytes the reads have returned
    published,           \* history: every put of serial_reader, in order
    close_outcome,       \* history: how the last on_close ended, or "none"
    answered_for         \* history: the command the device answered last

vars ==
    <<variant, running, ser, dialog, screen, start_info, game_mode,
      player_name, player_a_name, player_b_name, selected_rounds,
      current_round, round_times, player_a_times, player_b_times,
      waiting_for_result, btn_state, btn_cmd, status, last_result, winner,
      leaderboard, lb_entries, file, timers, session, terminal, tx_count,
      tx_last,
      submitted, load_outcome, stop_event, reader_pc, buffer, rx_queue,
      wire, delivered, published, close_outcome, answered_for>>

\* the fields of a session (spec: Session)
sessionVars ==
    <<selected_rounds, current_round, round_times, player_a_times,
      player_b_times, waiting_for_result>>

nameVars == <<player_name, player_a_name, player_b_name>>

buttonVars == <<btn_state, btn_cmd>>

labelVars == <<status, last_result, winner>>

historyVars == <<session, terminal, tx_count, tx_last>>

processVars == <<variant, running, ser>>

\* the leaderboard, its listboxes and its file
boardVars == <<leaderboard, lb_entries, file>>

\* history of the leaderboard store exercised on its own
storeVars == <<submitted, load_outcome>>

\* the serial_reader thread, its queue and its port
readerVars ==
    <<stop_event, reader_pc, buffer, rx_queue, wire, delivered, published,
      close_outcome, answered_for>>

EmptyBoard == [r \in Boards |-> <<>>]

\* a label text that shows a number: the wording and the number, the number
\* as a fraction <<numerator, denominator>>
Shown(text, value) == [text |-> text, value |-> value]

\* a label text without a number
Text(text) == Shown(text, <<0, 1>>)

\* ReactionGameApp.__init__ up to create_leaderboard_frame
Constructed ==
    /\ running = TRUE
    /\ dialog = FALSE
    /\ screen = IF variant = "user" THEN "mode" ELSE "start"
    /\ start_info = IF variant = "user" THEN "connected" ELSE ""
    /\ game_mode = IF variant = "user" THEN "none" ELSE "single"
    /\ player_name = <<>>
    /\ player_a_name = <<>>
    /\ player_b_name = <<>>
    /\ selected_rounds = 5
    /\ current_round = 0
    /\ round_times = <<>>
    /\ player_a_times = <<>>
    /\ player_b_times = <<>>
    /\ waiting_for_result = FALSE
    /\ btn_state = "normal"
    /\ btn_cmd = "start_round"
    /\ status = IF variant = "user" THEN "begin" ELSE "ready"
    /\ last_result = IF variant = "user" THEN Text("ready") ELSE Text("none")
    /\ winner = ""
    /\ leaderboard = EmptyBoard
    /\ lb_entries = EmptyBoard
    /\ timers = <<>>
    /\ session = 0
    /\ terminal = "no"
    /\ tx_count = 0
    /\ tx_last = <<>>
    /\ submitted = <<>>
    /\ stop_event = FALSE
    /\ buffer = <<>>
    /\ rx_queue = <<>>
    /\ delivered = <<>>
    /\ published = <<>>
    /\ close_outcome = "none"
    /\ answered_for = <<0, 0>>

\* ReactionGameApp.__init__: SP_user.py finds no leaderboard file and only
\* continues with the port open, SP_debug.py has no leaderboard file and
\* also runs with ser = None after a failed open
Init ==
    /\ variant \in Variants
    /\ ser \in IF variant = "debug" THEN {"open", "none"} ELSE {"open"}
    /\ file = MissingFile
    /\ load_outcome = IF variant = "user" THEN "returned" ELSE "none"
    /\ reader_pc = IF ser = "open" THEN "loop" ELSE "none"
    /\ wire = <<>>
    /\ Constructed

(* ---------------------------------------------------------------------- *)
(* Leaderboard                                                             *)
(* ---------------------------------------------------------------------- *)

\* index of the first entry of the board with this name, 0 if none
ExistingIndex(board, name) ==
    IF \E i \in DOMAIN board : board[i][1] = name
    THEN CHOOSE i \in DOMAIN board :
            /\ board[i][1] = name
            /\ \A j \in 1..(i - 1) : board[j][1] # name
    ELSE 0

\* update_leaderboard_entry with the fault of replacing the stored entry
\* whatever the new average
update_leaderboard_entry_always_replaces(lb, rounds, name, avg_time) ==
    LET board == lb[rounds]
        existing_index == ExistingIndex(board, name)
    IN  IF existing_index # 0
        THEN [lb EXCEPT ![rounds][existing_index] = <<name, avg_time>>]
        ELSE [lb EXCEPT ![rounds] = Append(board, <<name, avg_time>>)]

\* update_leaderboard_entry: the leaderboard after the call
update_leaderboard_entry(lb, rounds, name, avg_time) ==
    LET board == lb[rounds]
        existing_index == ExistingIndex(board, name)
    IN  IF existing_index # 0
        THEN IF AvgLess(avg_time, board[existing_index][2])
             THEN [lb EXCEPT ![rounds][existing_index] = <<name, avg_time>>]
             ELSE lb
        ELSE [lb EXCEPT ![rounds] = Append(board, <<name, avg_time>>)]

\* InsertByAvg with the fault of putting x in front of the entries of
\* equal average
InsertByAvg_before_equals(s, x) ==
    LET k == Cardinality({i \in DOMAIN s : AvgLess(s[i][2], x[2])})
    IN  SubSeq(s, 1, k) \o <<x>> \o SubSeq(s, k + 1, Len(s))

\* sorted(entries, key=lambda x: x[1]) after one more entry x: x goes
\* behind every entry whose average is not greater than its own
InsertByAvg(s, x) ==
    LET k == Cardinality({i \in DOMAIN s : ~AvgLess(x[2], s[i][2])})
    IN  SubSeq(s, 1, k) \o <<x>> \o SubSeq(s, k + 1, Len(s))

\* sorted(entries, key=lambda x: x[1]): ascending by average, entries of
\* equal average in the order of the list; the list itself is not changed
RECURSIVE sorted(_)
sorted(entries) ==
    IF entries = <<>> THEN <<>>
    ELSE InsertByAvg(sorted(SubSeq(entries, 1, Len(entries) - 1)),
                     entries[Len(entries)])

\* the number printed by the format :.1f, in tenths: the nearest tenth,
\* a half going to the even one
Tenths(avg) ==
    LET q == (10 * avg[1]) \div avg[2]
        r == (10 * avg[1]) % avg[2]
    IN  IF 2 * r > avg[2] THEN q + 1
        ELSE IF 2 * r < avg[2] THEN q
        ELSE q + (q % 2)

\* the listbox line f"{name}: {avg:.1f} ms"
Line(entry) == [name |-> entry[1], tenths |-> Tenths(entry[2])]

\* update_leaderboard_ui: the lines of the three listboxes for leaderboard lb
update_leaderboard_ui(lb) ==
    [rounds \in Boards |->
        LET entries == sorted(lb[rounds])
        IN  [k \in DOMAIN entries |-> Line(entries[k])]]

(* ---------------------------------------------------------------------- *)
(* Leaderboard file                                                        *)
(* ---------------------------------------------------------------------- *)

\* data[str(rounds)] can be turned into a list of tuples: it is a list and
\* each of its items is a list
IsEntryList(value) ==
    /\ value.type = "list"
    /\ \A k \in DOMAIN value.items : value.items[k].type = "list"

\* [tuple(entry) for entry in data[str(rounds)]]
Entries(value) == [k \in DOMAIN value.items |-> value.items[k].items]

\* the loop of load_leaderboard over the keys from position k on: the
\* leaderboard when the loop ends, and whether it ended by a TypeError
RECURSIVE LoadBoards(_, _, _)
LoadBoards(boards, lb, k) ==
    IF k > Len(BoardOrder) THEN [leaderboard |-> lb, raised |-> FALSE]
    ELSE LET rounds == BoardOrder[k]
             value == boards[Str(rounds)]
         IN  IF value.type = "absent" THEN LoadBoards(boards, lb, k + 1)
             ELSE IF ~IsEntryList(value)
             THEN [leaderboard |-> lb, raised |-> TRUE]
             ELSE LoadBoards(boards,
                             [lb EXCEPT ![rounds] = Entries(value)], k + 1)

\* save_leaderboard with the fault of leaving out the last entry of every
\* board
save_leaderboard_drops_last(lb, f, write_ok) ==
    IF write_ok
    THEN File("object",
              [key \in BoardKeys |->
                  LET rounds == CHOOSE r \in Boards : Str(r) = key
                  IN  JList([k \in 1..(Len(lb[rounds]) - 1) |->
                                JList(lb[rounds][k])])])
    ELSE f

\* save_leaderboard: the file after the call; write_ok tells whether open
\* and json.dump return or raise IOError
save_leaderboard(lb, f, write_ok) ==
    IF write_ok
    THEN File("object",
              [key \in BoardKeys |->
                  LET rounds == CHOOSE r \in Boards : Str(r) = key
                  IN  JList([k \in DOMAIN lb[rounds] |->
                                JList(lb[rounds][k])])])
    ELSE f

(* ---------------------------------------------------------------------- *)
(* Tk timers                                                               *)
(* ---------------------------------------------------------------------- *)

\* delay in milliseconds of each master.after callback
Delay(kind) ==
    CASE kind = "send_round_command" -> 2000
      [] kind = "show_final_results" -> 3500
      [] kind = "show_final_multiplayer_results" -> 3500
      [] kind = "show_multiplayer_error_results" -> 2000

\* a pending callback: its kind, the session that scheduled it, the mode
\* of the game at that time and, for
\* show_multiplayer_error_results, the winner it was scheduled with
Timer(kind, arg) ==
    [kind |-> kind, sid |-> session, mode |-> game_mode, arg |-> arg]

RemoveAt(seq, i) == SubSeq(seq, 1, i - 1) \o SubSeq(seq, i + 1, Len(seq))

\* Tk runs callbacks in order of their due time: a callback cannot run
\* before one that was scheduled earlier with a delay at most its own
CanFire(i) ==
    \A j \in 1..(i - 1) : Delay(timers[j].kind) > Delay(timers[i].kind)

(* ---------------------------------------------------------------------- *)
(* SP_user.py: mode and start screens                                      *)
(* ---------------------------------------------------------------------- *)

\* select_mode
select_mode(mode) ==
    /\ variant = "user" /\ running /\ ~dialog
    /\ screen = "mode"
    /\ game_mode' = mode
    /\ screen' = "start"
    /\ UNCHANGED <<processVars, storeVars, readerVars,
                   dialog, start_info, nameVars, sessionVars,
                   buttonVars, labelVars, boardVars, timers, historyVars>>

\* on_start_game_clicked, "Set up new game state" and the labels after it
NewGameState(rounds) ==
    /\ session < MaxSessions
    /\ start_info' = ""
    /\ selected_rounds' = rounds
    /\ current_round' = 0
    /\ round_times' = <<>>
    /\ player_a_times' = <<>>
    /\ player_b_times' = <<>>
    /\ waiting_for_result' = FALSE
    /\ status' = "begin"
    /\ last_result' = Text("ready")
    /\ winner' = ""
    /\ btn_state' = "normal"
    /\ btn_cmd' = "start_round"
    /\ screen' = "game"
    /\ session' = session + 1
    /\ terminal' = "no"
    /\ tx_count' = 0
    /\ tx_last' = tx_last

\* on_start_game_clicked stops with a message in start_info_label
RejectStart(info) ==
    /\ start_info' = info
    /\ UNCHANGED <<screen, sessionVars, buttonVars, labelVars, historyVars>>

\* on_start_game_clicked of SP_user.py; the texts of the three name entries
\* and the value of rounds_var are inputs
on_start_game_clicked(name_text, a_text, b_text, rounds) ==
    /\ variant = "user" /\ running /\ ~dialog
    /\ screen = "start"
    /\ LET name == Strip(name_text)
           player_a == Strip(a_text)
           player_b == Strip(b_text)
       IN  IF game_mode = "single" /\ name = <<>>
           THEN RejectStart("enter_name") /\ UNCHANGED nameVars
           ELSE IF game_mode # "single" /\ (player_a = <<>> \/ player_b = <<>>)
           THEN RejectStart("enter_both_names") /\ UNCHANGED nameVars
           ELSE /\ IF game_mode = "single"
                   THEN /\ player_name' = name
                        /\ UNCHANGED <<player_a_name, player_b_name>>
                   ELSE /\ player_a_name' = player_a
                        /\ player_b_name' = player_b
                        /\ UNCHANGED player_name
                /\ IF rounds \notin {1, 5, 10}
                   THEN RejectStart("select_rounds")
                   ELSE IF ser # "open"
                   THEN RejectStart("not_connected")
                   ELSE NewGameState(rounds)
    /\ UNCHANGED <<processVars, storeVars, readerVars,
                   dialog, game_mode, boardVars, timers>>

(* ---------------------------------------------------------------------- *)
(* SP_user.py: the round button                                            *)
(* ---------------------------------------------------------------------- *)

\* on_start_round_clicked with the fault of deferring a command also while
\* a round is in flight
on_start_round_clicked_while_waiting ==
    /\ variant = "user" /\ running /\ ~dialog
    /\ screen = "game" /\ btn_state = "normal" /\ btn_cmd = "start_round"
    /\ IF ser # "open"
       THEN /\ status' = "connection_error_restart_game"
            /\ UNCHANGED <<btn_state, timers>>
       ELSE IF current_round >= selected_rounds
       THEN /\ status' = "all_rounds_complete"
            /\ btn_state' = "disabled"
            /\ UNCHANGED timers
       ELSE /\ Len(timers) < MaxTimers
            /\ btn_state' = "disabled"
            /\ status' = "preparing"
            /\ timers' = Append(timers, Timer("send_round_command", ""))
    /\ UNCHANGED <<processVars, storeVars, readerVars,
                   dialog, screen, start_info, game_mode,
                   nameVars, sessionVars, btn_cmd, last_result, winner,
                   boardVars, historyVars>>

\* on_start_round_clicked of SP_user.py: the command is deferred by 2000 ms
on_start_round_clicked ==
    /\ variant = "user" /\ running /\ ~dialog
    /\ screen = "game" /\ btn_state = "normal" /\ btn_cmd = "start_round"
    /\ IF ser # "open"
       THEN /\ status' = "connection_error_restart_game"
            /\ UNCHANGED <<btn_state, timers>>
       ELSE IF waiting_for_result
       THEN /\ status' = "please_wait"
            /\ UNCHANGED <<btn_state, timers>>
       ELSE IF current_round >= selected_rounds
       THEN /\ status' = "all_rounds_complete"
            /\ btn_state' = "disabled"
            /\ UNCHANGED timers
       ELSE /\ Len(timers) < MaxTimers
            /\ btn_state' = "disabled"
            /\ status' = "preparing"
            /\ timers' = Append(timers, Timer("send_round_command", ""))
    /\ UNCHANGED <<processVars, storeVars, readerVars,
                   dialog, screen, start_info, game_mode,
                   nameVars, sessionVars, btn_cmd, last_result, winner,
                   boardVars, historyVars>>

\* the screen on_back_to_start_clicked returns to
MenuScreen == IF variant = "user" THEN "mode" ELSE "start"

\* on_back_to_start_clicked up to the confirmation: invoked by the round
\* button of SP_user.py once it reads RETURN TO MAIN MENU, and by the back
\* button of SP_debug.py
\* (bound: the last of the MaxSessions sessions is not left for the menu)
on_back_to_start_clicked ==
    /\ running /\ ~dialog
    /\ screen = "game"
    /\ session < MaxSessions
    /\ variant = "user" => (btn_state = "normal" /\ btn_cmd = "back")
    /\ IF waiting_for_result
       THEN /\ dialog' = TRUE
            /\ UNCHANGED <<waiting_for_result, screen>>
       ELSE /\ waiting_for_result' = FALSE
            /\ screen' = MenuScreen
            /\ UNCHANGED dialog
    /\ UNCHANGED <<processVars, storeVars, readerVars,
                   start_info, game_mode, nameVars,
                   selected_rounds, current_round, round_times,
                   player_a_times, player_b_times, buttonVars, labelVars,
                   boardVars, timers, historyVars>>

\* on_back_to_start_clicked after the confirmation was answered
confirm_back(yes) ==
    /\ running /\ dialog
    /\ dialog' = FALSE
    /\ IF yes
       THEN /\ waiting_for_result' = FALSE
            /\ screen' = MenuScreen
       ELSE UNCHANGED <<waiting_for_result, screen>>
    /\ UNCHANGED <<processVars, storeVars, readerVars,
                   start_info, game_mode, nameVars,
                   selected_rounds, current_round, round_times,
                   player_a_times, player_b_times, buttonVars, labelVars,
                   boardVars, timers, historyVars>>

(* ---------------------------------------------------------------------- *)
(* SP_user.py: timer callbacks                                             *)
(* ---------------------------------------------------------------------- *)

\* the variables a timer callback or a message handler may write
handlerVars ==
    <<current_round, round_times, player_a_times, player_b_times,
      waiting_for_result, btn_state, btn_cmd, status, last_result, winner,
      boardVars, terminal, tx_count, tx_last>>

\* what every timer callback and message handler leaves alone
handlerFrame ==
    UNCHANGED <<processVars, storeVars,
                dialog, screen, start_info, game_mode, nameVars,
                selected_rounds, session>>

\* what every timer callback leaves alone
callbackFrame == handlerFrame /\ UNCHANGED readerVars

\* the end of show_final_results and of show_final_multiplayer_results:
\* update_leaderboard_entry, update_leaderboard_ui, save_leaderboard
store_result(name, avg) ==
    LET lb == update_leaderboard_entry(leaderboard, selected_rounds, name,
                                       avg)
    IN  /\ leaderboard' = lb
        /\ lb_entries' = update_leaderboard_ui(lb)
        /\ \E write_ok \in BOOLEAN :
                file' = save_leaderboard(lb, file, write_ok)

\* send_round_command, run by the timer at position i; write_ok tells
\* whether ser.write returns or raises SerialException
send_round_command(i, write_ok, color, number) ==
    /\ running
    /\ i \in DOMAIN timers
    /\ timers[i].kind = "send_round_command"
    /\ CanFire(i)
    /\ timers' = RemoveAt(timers, i)
    /\ IF write_ok
       THEN /\ waiting_for_result' = TRUE
            /\ tx_count' = tx_count + 1
            /\ tx_last' = Command(game_mode, color, number)
            /\ status' = "get_ready"
            /\ last_result' = Text("...")
            /\ UNCHANGED btn_state
       ELSE /\ status' = "connection_error_restart"
            /\ btn_state' = "normal"
            /\ UNCHANGED <<waiting_for_result, tx_count, tx_last, last_result>>
    /\ UNCHANGED <<current_round, round_times, player_a_times,
                   player_b_times, btn_cmd, winner, boardVars, terminal>>
    /\ callbackFrame

\* show_final_results, run by the timer at position i; with no timing
\* recorded the division raises and Tk drops the callback
show_final_results(i) ==
    /\ running
    /\ i \in DOMAIN timers
    /\ timers[i].kind = "show_final_results"
    /\ CanFire(i)
    /\ timers' = RemoveAt(timers, i)
    /\ IF round_times = <<>>
       THEN UNCHANGED <<status, last_result, buttonVars, boardVars>>
       ELSE LET avg == Mean(round_times)
            IN  /\ status' = "congratulations"
                /\ last_result' = Shown("average", avg)
                /\ btn_state' = "normal"
                /\ btn_cmd' = "back"
                /\ store_result(player_name, avg)
    /\ UNCHANGED <<current_round, round_times, player_a_times,
                   player_b_times, waiting_for_result, winner, terminal,
                   tx_count, tx_last>>
    /\ callbackFrame

\* the name entered on the leaderboard for a tie
TieName == player_a_name \o <<" ", "&", " ">> \o player_b_name

\* show_final_multiplayer_results with the fault of giving a tie to
\* player A
show_final_multiplayer_results_tie_to_a(i) ==
    /\ running
    /\ i \in DOMAIN timers
    /\ timers[i].kind = "show_final_multiplayer_results"
    /\ CanFire(i)
    /\ timers' = RemoveAt(timers, i)
    /\ IF player_a_times = <<>> \/ player_b_times = <<>>
       THEN UNCHANGED <<status, winner, buttonVars, boardVars>>
       ELSE LET avg_a == Mean(player_a_times)
                avg_b == Mean(player_b_times)
                a_wins == ~AvgLess(avg_b, avg_a)
                b_wins == AvgLess(avg_b, avg_a)
                name == IF a_wins THEN player_a_name
                        ELSE IF b_wins THEN player_b_name
                        ELSE TieName
                winner_avg == IF a_wins THEN avg_a
                              ELSE IF b_wins THEN avg_b
                              ELSE avg_a
            IN  /\ winner' = IF a_wins THEN "A" ELSE IF b_wins THEN "B"
                             ELSE "tie"
                /\ status' = "winner"
                /\ btn_state' = "normal"
                /\ btn_cmd' = "back"
                /\ store_result(name, winner_avg)
    /\ UNCHANGED <<current_round, round_times, player_a_times,
                   player_b_times, waiting_for_result, last_result, terminal,
                   tx_count, tx_last>>
    /\ callbackFrame

\* show_final_multiplayer_results, run by the timer at position i
show_final_multiplayer_results(i) ==
    /\ running
    /\ i \in DOMAIN timers
    /\ timers[i].kind = "show_final_multiplayer_results"
    /\ CanFire(i)
    /\ timers' = RemoveAt(timers, i)
    /\ IF player_a_times = <<>> \/ player_b_times = <<>>
       THEN UNCHANGED <<status, winner, buttonVars, boardVars>>
       ELSE LET avg_a == Mean(player_a_times)
                avg_b == Mean(player_b_times)
                a_wins == AvgLess(avg_a, avg_b)
                b_wins == AvgLess(avg_b, avg_a)
                name == IF a_wins THEN player_a_name
                        ELSE IF b_wins THEN player_b_name
                        ELSE TieName
                winner_avg == IF a_wins THEN avg_a
                              ELSE IF b_wins THEN avg_b
                              ELSE avg_a
            IN  /\ winner' = IF a_wins THEN "A" ELSE IF b_wins THEN "B"
                             ELSE "tie"
                /\ status' = "winner"
                /\ btn_state' = "normal"
                /\ btn_cmd' = "back"
                /\ store_result(name, winner_avg)
    /\ UNCHANGED <<current_round, round_times, player_a_times,
                   player_b_times, waiting_for_result, last_result, terminal,
                   tx_count, tx_last>>
    /\ callbackFrame

\* show_multiplayer_error_results, run by the timer at position i with the
\* winner it was scheduled with
show_multiplayer_error_results(i) ==
    /\ running
    /\ i \in DOMAIN timers
    /\ timers[i].kind = "show_multiplayer_error_results"
    /\ CanFire(i)
    /\ timers' = RemoveAt(timers, i)
    /\ winner' = timers[i].arg
    /\ status' = "winner"
    /\ btn_state' = "normal"
    /\ btn_cmd' = "back"
    /\ UNCHANGED <<current_round, round_times, player_a_times,
                   player_b_times, waiting_for_result, last_result,
                   boardVars, terminal, tx_count, tx_last>>
    /\ callbackFrame

(* ---------------------------------------------------------------------- *)
(* SP_user.py: inbound messages                                            *)
(* ---------------------------------------------------------------------- *)

\* history: the session ended now unless it had ended before
Ended(how) == IF terminal = "no" THEN how ELSE terminal

\* a handler returns without writing anything
Ignore == UNCHANGED <<handlerVars, timers>>

\* single_game_over with the fault of dropping the timings recorded so far
single_game_over_drops_times(text) ==
    /\ status' = text
    /\ last_result' = Text("GAME OVER")
    /\ waiting_for_result' = FALSE
    /\ btn_state' = "normal"
    /\ btn_cmd' = "back"
    /\ terminal' = Ended("error")
    /\ round_times' = <<>>
    /\ UNCHANGED <<current_round, player_a_times, player_b_times, winner,
                   boardVars, timers, tx_count, tx_last>>

\* handle_single_player_response, the branch of E0 and of E1
single_game_over(text) ==
    /\ status' = text
    /\ last_result' = Text("GAME OVER")
    /\ waiting_for_result' = FALSE
    /\ btn_state' = "normal"
    /\ btn_cmd' = "back"
    /\ terminal' = Ended("error")
    /\ UNCHANGED <<current_round, round_times, player_a_times,
                   player_b_times, winner, boardVars, timers, tx_count, tx_last>>

\* single_record with the fault of counting the round without storing its
\* timing
single_record_skips_append(delay_ms) ==
    /\ Len(round_times) < MaxTimes
    /\ waiting_for_result' = FALSE
    /\ round_times' = round_times
    /\ current_round' = current_round + 1
    /\ last_result' = Shown("ms", <<delay_ms, 1>>)
    /\ btn_cmd' = btn_cmd
    /\ IF current_round + 1 >= selected_rounds
       THEN /\ Len(timers) < MaxTimers
            /\ status' = "round_complete"
            /\ btn_state' = "disabled"
            /\ timers' = Append(timers, Timer("show_final_results", ""))
            /\ terminal' = Ended("complete")
       ELSE /\ status' = "great"
            /\ btn_state' = "normal"
            /\ UNCHANGED <<timers, terminal>>
    /\ UNCHANGED <<player_a_times, player_b_times, winner, boardVars,
                   tx_count, tx_last>>

\* handle_single_player_response, "Record this round" to the end
single_record(delay_ms) ==
    /\ Len(round_times) < MaxTimes
    /\ waiting_for_result' = FALSE
    /\ round_times' = Append(round_times, delay_ms)
    /\ current_round' = current_round + 1
    /\ last_result' = Shown("ms", <<delay_ms, 1>>)
    /\ btn_cmd' = btn_cmd
    /\ IF current_round + 1 >= selected_rounds
       THEN /\ Len(timers) < MaxTimers
            /\ status' = "round_complete"
            /\ btn_state' = "disabled"
            /\ timers' = Append(timers, Timer("show_final_results", ""))
            /\ terminal' = Ended("complete")
       ELSE /\ status' = "great"
            /\ btn_state' = "normal"
            /\ UNCHANGED <<timers, terminal>>
    /\ UNCHANGED <<player_a_times, player_b_times, winner, boardVars,
                   tx_count, tx_last>>

\* handle_single_player_response
handle_single_player_response(line_stripped) ==
    IF line_stripped = E0 THEN single_game_over("too_early")
    ELSE IF line_stripped = E1 THEN single_game_over("wrong_color")
    ELSE IF ~IsInt(line_stripped) THEN Ignore
    ELSE IF ~waiting_for_result THEN Ignore
    ELSE single_record(ParseInt(line_stripped))

\* process_multiplayer_round with the fault of scheduling no reveal after
\* the last round
process_multiplayer_round_without_reveal ==
    /\ waiting_for_result' = FALSE
    /\ current_round' = current_round + 1
    /\ IF current_round + 1 >= selected_rounds
       THEN /\ status' = "final_round_complete"
            /\ btn_state' = "disabled"
            /\ timers' = timers
            /\ terminal' = Ended("complete")
       ELSE /\ status' = "great"
            /\ btn_state' = "normal"
            /\ UNCHANGED <<timers, terminal>>

\* process_multiplayer_round, called with the new timing sequences
process_multiplayer_round ==
    /\ waiting_for_result' = FALSE
    /\ current_round' = current_round + 1
    /\ IF current_round + 1 >= selected_rounds
       THEN /\ Len(timers) < MaxTimers
            /\ status' = "final_round_complete"
            /\ btn_state' = "disabled"
            /\ timers' =
                   Append(timers, Timer("show_final_multiplayer_results", ""))
            /\ terminal' = Ended("complete")
       ELSE /\ status' = "great"
            /\ btn_state' = "normal"
            /\ UNCHANGED <<timers, terminal>>

\* handle_multiplayer_response, the branch of a tagged error: the player who
\* did not err is shown as the winner and the result screen is scheduled
multi_error(winner_player) ==
    /\ Len(timers) < MaxTimers
    /\ winner' = winner_player
    /\ waiting_for_result' = FALSE
    /\ timers' =
           Append(timers, Timer("show_multiplayer_error_results", winner_player))
    /\ terminal' = Ended("error")
    /\ UNCHANGED <<current_round, round_times, player_a_times,
                   player_b_times, buttonVars, status, last_result,
                   boardVars, tx_count, tx_last>>

\* multi_time_a with the fault of closing the round as soon as player A is
\* not behind player B
multi_time_a_closes_early(text) ==
    IF ~IsInt(text) THEN Ignore
    ELSE /\ Len(player_a_times) < MaxTimes
         /\ player_a_times' = Append(player_a_times, ParseInt(text))
         /\ IF Len(player_a_times) + 1 >= Len(player_b_times)
            THEN process_multiplayer_round
            ELSE UNCHANGED <<waiting_for_result, current_round, status,
                             btn_state, timers, terminal>>
         /\ UNCHANGED <<round_times, player_b_times, btn_cmd, last_result,
                        winner, boardVars, tx_count, tx_last>>

\* handle_multiplayer_response, the branch of a timing tagged A
multi_time_a(text) ==
    IF ~IsInt(text) THEN Ignore
    ELSE /\ Len(player_a_times) < MaxTimes
         /\ player_a_times' = Append(player_a_times, ParseInt(text))
         /\ IF Len(player_a_times) + 1 = Len(player_b_times)
            THEN process_multiplayer_round
            ELSE UNCHANGED <<waiting_for_result, current_round, status,
                             btn_state, timers, terminal>>
         /\ UNCHANGED <<round_times, player_b_times, btn_cmd, last_result,
                        winner, boardVars, tx_count, tx_last>>

\* handle_multiplayer_response, the branch of a timing tagged B
multi_time_b(text) ==
    IF ~IsInt(text) THEN Ignore
    ELSE /\ Len(player_b_times) < MaxTimes
         /\ player_b_times' = Append(player_b_times, ParseInt(text))
         /\ IF Len(player_a_times) = Len(player_b_times) + 1
            THEN process_multiplayer_round
            ELSE UNCHANGED <<waiting_for_result, current_round, status,
                             btn_state, timers, terminal>>
         /\ UNCHANGED <<round_times, player_a_times, btn_cmd, last_result,
                        winner, boardVars, tx_count, tx_last>>

\* handle_multiplayer_response with the fault of taking an error code
\* without a player's tag as an error of player A
handle_multiplayer_response_untagged_error(line_stripped) ==
    IF line_stripped = <<>> THEN Ignore
    ELSE IF ~waiting_for_result THEN Ignore
    ELSE IF line_stripped \in {E0, E1} THEN multi_error("B")
    ELSE IF StartsWith(line_stripped, "A") /\ Tail(line_stripped) \in {E0, E1}
    THEN multi_error("B")
    ELSE IF StartsWith(line_stripped, "B") /\ Tail(line_stripped) \in {E0, E1}
    THEN multi_error("A")
    ELSE IF StartsWith(line_stripped, "A") THEN multi_time_a(Tail(line_stripped))
    ELSE IF StartsWith(line_stripped, "B") THEN multi_time_b(Tail(line_stripped))
    ELSE Ignore

\* handle_multiplayer_response
handle_multiplayer_response(line_stripped) ==
    IF line_stripped = <<>> THEN Ignore
    ELSE IF ~waiting_for_result THEN Ignore
    ELSE IF StartsWith(line_stripped, "A") /\ Tail(line_stripped) \in {E0, E1}
    THEN multi_error("B")
    ELSE IF StartsWith(line_stripped, "B") /\ Tail(line_stripped) \in {E0, E1}
    THEN multi_error("A")
    ELSE IF StartsWith(line_stripped, "A") THEN multi_time_a(Tail(line_stripped))
    ELSE IF StartsWith(line_stripped, "B") THEN multi_time_b(Tail(line_stripped))
    ELSE Ignore

(* ---------------------------------------------------------------------- *)
(* SP_debug.py                                                             *)
(* ---------------------------------------------------------------------- *)

\* on_start_game_clicked of SP_debug.py
debug_on_start_game_clicked(name_text, rounds) ==
    /\ variant = "debug" /\ running /\ ~dialog
    /\ screen = "start"
    /\ LET name == Strip(name_text)
       IN  IF name = <<>>
           THEN RejectStart("enter_name") /\ UNCHANGED player_name
           ELSE IF rounds \notin {1, 5, 10}
           THEN RejectStart("select_rounds") /\ UNCHANGED player_name
           ELSE IF ser # "open"
           THEN RejectStart("not_open") /\ UNCHANGED player_name
           ELSE /\ session < MaxSessions
                /\ start_info' = ""
                /\ player_name' = name
                /\ selected_rounds' = rounds
                /\ current_round' = 0
                /\ round_times' = <<>>
                /\ waiting_for_result' = FALSE
                /\ status' = "ready"
                /\ last_result' = Text("none")
                /\ btn_state' = "normal"
                /\ screen' = "game"
                /\ session' = session + 1
                /\ terminal' = "no"
                /\ tx_count' = 0
                /\ tx_last' = tx_last
                /\ UNCHANGED <<player_a_times, player_b_times, btn_cmd, winner>>
    /\ UNCHANGED <<processVars, storeVars, readerVars,
                   dialog, game_mode, player_a_name,
                   player_b_name, boardVars, timers>>

\* on_start_round_clicked of SP_debug.py: the command is written at once
debug_on_start_round_clicked(write_ok, color, number) ==
    /\ variant = "debug" /\ running /\ ~dialog
    /\ screen = "game" /\ btn_state = "normal"
    /\ IF ser # "open"
       THEN /\ status' = "serial_not_open"
            /\ UNCHANGED <<waiting_for_result, btn_state, tx_count, tx_last>>
       ELSE IF waiting_for_result
       THEN /\ status' = "waiting"
            /\ UNCHANGED <<waiting_for_result, btn_state, tx_count, tx_last>>
       ELSE IF current_round >= selected_rounds
       THEN /\ status' = "all_finished"
            /\ btn_state' = "disabled"
            /\ UNCHANGED <<waiting_for_result, tx_count, tx_last>>
       ELSE IF ~write_ok
       THEN /\ status' = "write_error"
            /\ UNCHANGED <<waiting_for_result, btn_state, tx_count, tx_last>>
       ELSE /\ waiting_for_result' = TRUE
            /\ btn_state' = "disabled"
            /\ status' = "sent"
            /\ tx_count' = tx_count + 1
            /\ tx_last' = Command("single", color, number)
    /\ UNCHANGED <<processVars, storeVars, readerVars,
                   dialog, screen, start_info, game_mode,
                   nameVars, selected_rounds, current_round, round_times,
                   player_a_times, player_b_times, btn_cmd, last_result,
                   winner, boardVars, timers, session, terminal>>

\* handle_serial_line of SP_debug.py, the branch of E0 and of E1
debug_game_over(text) ==
    /\ status' = text
    /\ last_result' = Text("GAME OVER")
    /\ waiting_for_result' = FALSE
    /\ btn_state' = "disabled"
    /\ terminal' = Ended("error")
    /\ UNCHANGED <<current_round, round_times, player_a_times,
                   player_b_times, btn_cmd, winner, boardVars, timers,
                   tx_count, tx_last>>

\* handle_serial_line of SP_debug.py, a label changes and nothing else
debug_note(text) ==
    /\ status' = text
    /\ UNCHANGED <<current_round, round_times, player_a_times,
                   player_b_times, waiting_for_result, buttonVars,
                   last_result, winner, boardVars, timers, terminal,
                   tx_count, tx_last>>

\* handle_serial_line of SP_debug.py, "Record this round" to the end
debug_record(delay_ms) ==
    /\ Len(round_times) < MaxTimes
    /\ waiting_for_result' = FALSE
    /\ round_times' = Append(round_times, delay_ms)
    /\ current_round' = current_round + 1
    /\ last_result' = Shown("ms", <<delay_ms, 1>>)
    /\ IF current_round + 1 >= selected_rounds
       THEN /\ status' = "finished"
            /\ btn_state' = "disabled"
            /\ leaderboard' =
                   [leaderboard EXCEPT ![selected_rounds] =
                       Append(@, <<player_name,
                                   Mean(Append(round_times, delay_ms))>>)]
            /\ lb_entries' = update_leaderboard_ui(leaderboard')
            /\ UNCHANGED file
            /\ terminal' = Ended("complete")
       ELSE /\ status' = "round_complete"
            /\ btn_state' = "normal"
            /\ UNCHANGED <<boardVars, terminal>>
    /\ UNCHANGED <<player_a_times, player_b_times, btn_cmd, winner, timers,
                   tx_count, tx_last>>

\* handle_serial_line of SP_debug.py
debug_handle_serial_line(line_stripped) ==
    IF line_stripped = E0 THEN debug_game_over("too_early")
    ELSE IF line_stripped = E1 THEN debug_game_over("wrong_color")
    ELSE IF ~IsInt(line_stripped) THEN debug_note("non_numeric")
    ELSE IF ~waiting_for_result THEN debug_note("unexpected")
    ELSE debug_record(ParseInt(line_stripped))

(* ---------------------------------------------------------------------- *)
(* Both programs                                                           *)
(* ---------------------------------------------------------------------- *)

\* handle_serial_line, called by process_rx_queue for one line of the queue
handle_serial_line(line) ==
    /\ running
    /\ LET line_stripped == Strip(line)
       IN  IF variant = "debug" THEN debug_handle_serial_line(line_stripped)
           ELSE IF game_mode = "single"
           THEN handle_single_player_response(line_stripped)
           ELSE handle_multiplayer_response(line_stripped)
    /\ handlerFrame

\* process_rx_queue takes a line and hands it to handle_serial_line; which
\* lines serial_reader has put is left open
process_rx_line(line) == handle_serial_line(line) /\ UNCHANGED readerVars

\* what on_close leaves alone
closeFrame ==
    UNCHANGED <<variant, storeVars, reader_pc, buffer, rx_queue, wire,
                delivered, published, answered_for, dialog, screen,
                start_info, game_mode,
                nameVars, sessionVars, buttonVars, labelVars, boardVars,
                timers, historyVars>>

\* on_close, called by the window manager
on_close ==
    /\ running /\ ~dialog
    /\ stop_event' = TRUE
    /\ ser' = IF ser = "open" THEN "closed" ELSE ser
    /\ running' = FALSE
    /\ close_outcome' = "returned"
    /\ closeFrame

\* on_close called once more after it has destroyed the window:
\* master.destroy() raises TclError
on_close_again ==
    /\ ~running
    /\ close_outcome # "none"
    /\ stop_event' = TRUE
    /\ ser' = IF ser = "open" THEN "closed" ELSE ser
    /\ close_outcome' = "raised"
    /\ UNCHANGED running
    /\ closeFrame

(* ---------------------------------------------------------------------- *)
(* Specification                                                           *)
(* ---------------------------------------------------------------------- *)

\* the handlers of the buttons and of the timers, the random calls
\* returning one of the given draws
HandlersOn(draws) ==
    \/ \E mode \in {"single", "multiplayer"} : select_mode(mode)
    \/ \E name_text \in NameInputs, a_text \in NameInputs,
          b_text \in NameInputsB, rounds \in RoundChoices :
            on_start_game_clicked(name_text, a_text, b_text, rounds)
    \/ on_start_round_clicked
    \/ on_back_to_start_clicked
    \/ \E yes \in BOOLEAN : confirm_back(yes)
    \/ \E i \in 1..MaxTimers, write_ok \in BOOLEAN, draw \in draws :
            send_round_command(i, write_ok, draw[1], draw[2])
    \/ \E i \in 1..MaxTimers : show_final_results(i)
    \/ \E i \in 1..MaxTimers : show_final_multiplayer_results(i)
    \/ \E i \in 1..MaxTimers : show_multiplayer_error_results(i)
    \/ \E name_text \in NameInputs, rounds \in RoundChoices :
            debug_on_start_game_clicked(name_text, rounds)
    \/ \E write_ok \in BOOLEAN, draw \in draws :
            debug_on_start_round_clicked(write_ok, draw[1], draw[2])

Handlers == HandlersOn(SomeDraws)

Next ==
    \/ Handlers
    \/ \E line \in Msgs : process_rx_line(line)

Spec == Init /\ [][Next]_vars

(* ---------------------------------------------------------------------- *)
(* The start handlers with any value of rounds_var                         *)
(* ---------------------------------------------------------------------- *)

\* the start button is pressed, in either program
StartAttempt ==
    \/ \E name_text \in NameInputs, a_text \in NameInputs,
          b_text \in NameInputsB, rounds \in RoundInputs :
            on_start_game_clicked(name_text, a_text, b_text, rounds)
    \/ \E name_text \in NameInputs, rounds \in RoundInputs :
            debug_on_start_game_clicked(name_text, rounds)

NextStart == Next \/ StartAttempt

SpecStart == Init /\ [][NextStart]_vars

(* ---------------------------------------------------------------------- *)
(* The leaderboard of SP_user.py on its own                                *)
(* ---------------------------------------------------------------------- *)

\* names handed to update_leaderboard_entry
StoreNames == {<<"a">>, <<"b">>, <<"c">>}

\* averages handed to update_leaderboard_entry: 190.0, 210.0, 210.25, 250.0
StoreAverages == {<<190, 1>>, <<210, 1>>, <<841, 4>>, <<250, 1>>}

\* one call of update_leaderboard_entry
call_update_leaderboard_entry(rounds, name, avg_time) ==
    /\ Len(submitted) < MaxCalls
    /\ leaderboard' = update_leaderboard_entry(leaderboard, rounds, name,
                                               avg_time)
    /\ submitted' = Append(submitted, <<rounds, name, avg_time>>)
    /\ UNCHANGED <<processVars, load_outcome, readerVars, dialog, screen,
                   start_info,
                   game_mode, nameVars, sessionVars, buttonVars, labelVars,
                   lb_entries, file, timers, historyVars>>

\* one call of update_leaderboard_ui
call_update_leaderboard_ui ==
    /\ lb_entries' = update_leaderboard_ui(leaderboard)
    /\ UNCHANGED <<processVars, storeVars, readerVars,
                   dialog, screen, start_info,
                   game_mode, nameVars, sessionVars, buttonVars, labelVars,
                   leaderboard, file, timers, historyVars>>

InitBoard == Init /\ variant = "user"

NextBoard ==
    \/ \E rounds \in RoundChoices, name \in StoreNames,
          avg_time \in StoreAverages :
            call_update_leaderboard_entry(rounds, name, avg_time)
    \/ call_update_leaderboard_ui

SpecBoard == InitBoard /\ [][NextBoard]_vars

(* ---------------------------------------------------------------------- *)
(* load_leaderboard of SP_user.py on its own                               *)
(* ---------------------------------------------------------------------- *)

\* items of a board in the files tried: an entry ["a", 210.0] and a number
FileItems == {JList(<< <<"a">>, <<210, 1>> >>), JNumber}

\* values under a key in the files tried: no such key, a number, and the
\* lists of at most MaxEntries items
FileBoards ==
    {JAbsent, JNumber}
        \cup {JList(items) : items \in UNION {[1..n -> FileItems] :
                                               n \in 0..MaxEntries}}

\* the files tried; kind "not_text" is a file whose bytes are not UTF-8
\* (json.load raises UnicodeDecodeError)
Files ==
    {File(kind, NoBoards) :
        kind \in {"missing", "unreadable", "not_text", "invalid_json",
                  "not_object"}}
        \cup {File("object", boards) : boards \in [BoardKeys -> FileBoards]}

\* load_leaderboard, called once by __init__; an exception other than
\* JSONDecodeError and IOError leaves __init__ and ends the program
load_leaderboard ==
    /\ load_outcome = "none"
    /\ variant = "user"
    /\ IF file.kind = "missing"
       THEN /\ load_outcome' = "returned"
            /\ UNCHANGED <<leaderboard, lb_entries>>
       ELSE IF file.kind \in {"unreadable", "invalid_json"}
       THEN /\ load_outcome' = "returned"
            /\ leaderboard' = EmptyBoard
            /\ UNCHANGED lb_entries
       ELSE IF file.kind \in {"not_text", "not_object"}
       THEN /\ load_outcome' = "raised"
            /\ UNCHANGED <<leaderboard, lb_entries>>
       ELSE LET loaded == LoadBoards(file.boards, leaderboard, 1)
            IN  /\ leaderboard' = loaded.leaderboard
                /\ IF loaded.raised
                   THEN /\ load_outcome' = "raised"
                        /\ UNCHANGED lb_entries
                   ELSE /\ load_outcome' = "returned"
                        /\ lb_entries' =
                               update_leaderboard_ui(loaded.leaderboard)
    /\ running' = (load_outcome' = "returned")
    /\ UNCHANGED <<variant, ser, submitted, readerVars, file, dialog,
                   screen, start_info,
                   game_mode, nameVars, sessionVars, buttonVars, labelVars,
                   timers, historyVars>>

\* __init__ of SP_user.py before it calls load_leaderboard, with any of the
\* files
InitLoad ==
    /\ variant = "user"
    /\ ser = "none"
    /\ file \in Files
    /\ load_outcome = "none"
    /\ reader_pc = "none"
    /\ wire = <<>>
    /\ Constructed

NextLoad == load_leaderboard

SpecLoad == InitLoad /\ [][NextLoad]_vars

(* ---------------------------------------------------------------------- *)
(* serial_reader, its queue and on_close                                   *)
(* ---------------------------------------------------------------------- *)

\* the byte that is not ASCII, and the character decode puts in its place
NonAscii == "0xFF"

Replacement == "U+FFFD"

\* the bytes the port hands over in the runs tried
ByteInputs == {"1", "\n", "\r", NonAscii}

Delimiters == {"\n", "\r"}

\* what the port has to hand over in one run
WireInputs == UNION {[1..n -> ByteInputs] : n \in 0..MaxBytes}

\* line_bytes.decode("ascii", errors="replace")
Decode(line_bytes) ==
    [k \in DOMAIN line_bytes |->
        IF line_bytes[k] = NonAscii THEN Replacement ELSE line_bytes[k]]

\* min(sep_positions): the position of the first "\n" or "\r" of the
\* buffer, 0 if it has none
SepPosition(buf) ==
    IF \E k \in DOMAIN buf : buf[k] \in Delimiters
    THEN CHOOSE k \in DOMAIN buf :
            /\ buf[k] \in Delimiters
            /\ \A j \in 1..(k - 1) : buf[j] \notin Delimiters
    ELSE 0

\* one rx_queue.put: the text put in the queue, with the bytes it was
\* made from, the delimiter dropped after them ("" if none) and whether
\* stop_event was set at the time
Put(kind, line_bytes, sep) ==
    [kind |-> kind, bytes |-> line_bytes, sep |-> sep,
     stopped |-> stop_event]

\* what the reader thread leaves alone
readerFrame ==
    UNCHANGED <<processVars, storeVars, stop_event, close_outcome,
                answered_for, dialog,
                screen, start_info, game_mode, nameVars, sessionVars,
                buttonVars, labelVars, boardVars, timers, historyVars>>

\* serial_reader: the test of the while loop
serial_reader_loop ==
    /\ reader_pc = "loop"
    /\ reader_pc' = IF stop_event THEN "done" ELSE "check"
    /\ UNCHANGED <<buffer, rx_queue, wire, delivered, published>>
    /\ readerFrame

\* serial_reader: the test of the port
serial_reader_check ==
    /\ reader_pc = "check"
    /\ reader_pc' = IF ser # "open" THEN "done" ELSE "read"
    /\ UNCHANGED <<buffer, rx_queue, wire, delivered, published>>
    /\ readerFrame

\* serial_reader_read with the fault of going on with the loop after the
\* sentinel was put
serial_reader_read_goes_on(n, read_ok) ==
    /\ reader_pc = "read"
    /\ n \in 0..Len(wire)
    /\ n <= 64
    /\ ser # "open" => ~read_ok
    /\ IF read_ok
       THEN LET data == SubSeq(wire, 1, n)
            IN  /\ wire' = SubSeq(wire, n + 1, Len(wire))
                /\ delivered' = delivered \o data
                /\ buffer' = buffer \o data
                /\ reader_pc' = IF data # <<>> THEN "frame" ELSE "loop"
                /\ UNCHANGED <<rx_queue, published>>
       ELSE /\ n = 0
            /\ rx_queue' = Append(rx_queue, Sentinel)
            /\ published' = Append(published, Put("error", <<>>, ""))
            /\ reader_pc' = "loop"
            /\ UNCHANGED <<buffer, wire, delivered>>
    /\ readerFrame

\* serial_reader: ser.read(64) returns the next n bytes (none after the
\* timeout) or, with read_ok false, raises SerialException, as it does on
\* a port closed since the test; the except clause puts the sentinel
serial_reader_read(n, read_ok) ==
    /\ reader_pc = "read"
    /\ n \in 0..Len(wire)
    /\ n <= 64
    /\ ser # "open" => ~read_ok
    /\ IF read_ok
       THEN LET data == SubSeq(wire, 1, n)
            IN  /\ wire' = SubSeq(wire, n + 1, Len(wire))
                /\ delivered' = delivered \o data
                /\ buffer' = buffer \o data
                /\ reader_pc' = IF data # <<>> THEN "frame" ELSE "loop"
                /\ UNCHANGED <<rx_queue, published>>
       ELSE /\ n = 0
            /\ rx_queue' = Append(rx_queue, Sentinel)
            /\ published' = Append(published, Put("error", <<>>, ""))
            /\ reader_pc' = "done"
            /\ UNCHANGED <<buffer, wire, delivered>>
    /\ readerFrame

\* serial_reader_frame with the fault of dropping the byte behind the
\* delimiter too
serial_reader_frame_drops_two ==
    /\ reader_pc = "frame"
    /\ LET sep == SepPosition(buffer)
       IN  IF sep # 0
           THEN LET line_bytes == SubSeq(buffer, 1, sep - 1)
                IN  /\ buffer' = SubSeq(buffer, sep + 2, Len(buffer))
                    /\ rx_queue' = Append(rx_queue, Decode(line_bytes))
                    /\ published' =
                           Append(published,
                                  Put("line", line_bytes, buffer[sep]))
                    /\ UNCHANGED reader_pc
           ELSE IF Len(buffer) >= 3
           THEN LET line_bytes == SubSeq(buffer, 1, 3)
                IN  /\ buffer' = SubSeq(buffer, 4, Len(buffer))
                    /\ rx_queue' = Append(rx_queue, Decode(line_bytes))
                    /\ published' =
                           Append(published, Put("line", line_bytes, ""))
                    /\ UNCHANGED reader_pc
           ELSE /\ reader_pc' = "loop"
                /\ UNCHANGED <<buffer, rx_queue, published>>
    /\ UNCHANGED <<wire, delivered>>
    /\ readerFrame

\* serial_reader_frame with the fault of taking three bytes first, before
\* it looks for a delimiter
serial_reader_frame_three_first ==
    /\ reader_pc = "frame"
    /\ LET sep == SepPosition(buffer)
       IN  IF Len(buffer) >= 3
           THEN LET line_bytes == SubSeq(buffer, 1, 3)
                IN  /\ buffer' = SubSeq(buffer, 4, Len(buffer))
                    /\ rx_queue' = Append(rx_queue, Decode(line_bytes))
                    /\ published' =
                           Append(published, Put("line", line_bytes, ""))
                    /\ UNCHANGED reader_pc
           ELSE IF sep # 0
           THEN LET line_bytes == SubSeq(buffer, 1, sep - 1)
                IN  /\ buffer' = SubSeq(buffer, sep + 1, Len(buffer))
                    /\ rx_queue' = Append(rx_queue, Decode(line_bytes))
                    /\ published' =
                           Append(published,
                                  Put("line", line_bytes, buffer[sep]))
                    /\ UNCHANGED reader_pc
           ELSE /\ reader_pc' = "loop"
                /\ UNCHANGED <<buffer, rx_queue, published>>
    /\ UNCHANGED <<wire, delivered>>
    /\ readerFrame

\* serial_reader_frame with the fault of taking three bytes only when a
\* fourth has arrived
serial_reader_frame_waits_for_four ==
    /\ reader_pc = "frame"
    /\ LET sep == SepPosition(buffer)
       IN  IF sep # 0
           THEN LET line_bytes == SubSeq(buffer, 1, sep - 1)
                IN  /\ buffer' = SubSeq(buffer, sep + 1, Len(buffer))
                    /\ rx_queue' = Append(rx_queue, Decode(line_bytes))
                    /\ published' =
                           Append(published,
                                  Put("line", line_bytes, buffer[sep]))
                    /\ UNCHANGED reader_pc
           ELSE IF Len(buffer) >= 4
           THEN LET line_bytes == SubSeq(buffer, 1, 3)
                IN  /\ buffer' = SubSeq(buffer, 4, Len(buffer))
                    /\ rx_queue' = Append(rx_queue, Decode(line_bytes))
                    /\ published' =
                           Append(published, Put("line", line_bytes, ""))
                    /\ UNCHANGED reader_pc
           ELSE /\ reader_pc' = "loop"
                /\ UNCHANGED <<buffer, rx_queue, published>>
    /\ UNCHANGED <<wire, delivered>>
    /\ readerFrame

\* serial_reader: one turn of the extraction loop
serial_reader_frame ==
    /\ reader_pc = "frame"
    /\ LET sep == SepPosition(buffer)
       IN  IF sep # 0
           THEN LET line_bytes == SubSeq(buffer, 1, sep - 1)
                IN  /\ buffer' = SubSeq(buffer, sep + 1, Len(buffer))
                    /\ rx_queue' = Append(rx_queue, Decode(line_bytes))
                    /\ published' =
                           Append(published,
                                  Put("line", line_bytes, buffer[sep]))
                    /\ UNCHANGED reader_pc
           ELSE IF Len(buffer) >= 3
           THEN LET line_bytes == SubSeq(buffer, 1, 3)
                IN  /\ buffer' = SubSeq(buffer, 4, Len(buffer))
                    /\ rx_queue' = Append(rx_queue, Decode(line_bytes))
                    /\ published' =
                           Append(published, Put("line", line_bytes, ""))
                    /\ UNCHANGED reader_pc
           ELSE /\ reader_pc' = "loop"
                /\ UNCHANGED <<buffer, rx_queue, published>>
    /\ UNCHANGED <<wire, delivered>>
    /\ readerFrame

\* process_rx_queue with the fault of taking the newest line of the queue
process_rx_queue_takes_newest ==
    /\ rx_queue # <<>>
    /\ rx_queue' = SubSeq(rx_queue, 1, Len(rx_queue) - 1)
    /\ handle_serial_line(rx_queue[Len(rx_queue)])
    /\ UNCHANGED <<stop_event, reader_pc, buffer, wire, delivered, published,
                   close_outcome, answered_for>>

\* process_rx_queue: one turn of its loop, with a line in the queue
process_rx_queue ==
    /\ rx_queue # <<>>
    /\ rx_queue' = Tail(rx_queue)
    /\ handle_serial_line(Head(rx_queue))
    /\ UNCHANGED <<stop_event, reader_pc, buffer, wire, delivered, published,
                   close_outcome, answered_for>>

\* __init__ has started the reader thread on an open port; SP_debug.py
\* also runs with ser = None and no reader thread after a failed open
InitReader ==
    /\ variant \in Variants
    /\ ser \in IF variant = "debug" THEN {"open", "none"} ELSE {"open"}
    /\ file = MissingFile
    /\ load_outcome = IF variant = "user" THEN "returned" ELSE "none"
    /\ reader_pc = IF ser = "open" THEN "loop" ELSE "none"
    /\ wire \in IF ser = "open" THEN WireInputs ELSE {<<>>}
    /\ Constructed

NextReader ==
    \/ serial_reader_loop
    \/ serial_reader_check
    \/ \E n \in 0..MaxBytes, read_ok \in BOOLEAN :
            serial_reader_read(n, read_ok)
    \/ serial_reader_frame
    \/ process_rx_queue
    \/ on_close
    \/ on_close_again

SpecReader == InitReader /\ [][NextReader]_vars

(* ---------------------------------------------------------------------- *)
(* The program with its reader thread and the device                       *)
(* ---------------------------------------------------------------------- *)

\* what the device may send back for a command written in the given session:
\* the timing it reports is the number of the session, which tells the
\* answers to different sessions apart; a two-player round is answered for
\* both players, or by the fault of one of them
DeviceAnswers(s) ==
    IF variant = "user" /\ game_mode = "multiplayer"
    THEN { <<"A", DigitOf(s), "\n", "B", DigitOf(s), "\n">>,
           <<"A", "E", "0", "\n">> }
    ELSE { <<DigitOf(s), "\n">>, <<"E", "0", "\n">> }

\* the device answers the last command written, once
device_answers ==
    /\ tx_count > 0
    /\ answered_for # <<session, tx_count, tx_last>>
    /\ \E answer \in DeviceAnswers(session) :
            /\ Len(delivered) + Len(wire) + Len(answer) <= MaxWire
            /\ wire' = wire \o answer
    /\ answered_for' = <<session, tx_count, tx_last>>
    /\ UNCHANGED <<processVars, storeVars, stop_event, reader_pc, buffer,
                   rx_queue, delivered, published, close_outcome, dialog,
                   screen, start_info, game_mode, nameVars, sessionVars,
                   buttonVars, labelVars, boardVars, timers, historyVars>>

\* __init__ has started the reader thread on an open port; the device has
\* sent nothing yet
InitLink ==
    /\ variant \in Variants
    /\ ser = "open"
    /\ file = MissingFile
    /\ load_outcome = IF variant = "user" THEN "returned" ELSE "none"
    /\ reader_pc = "loop"
    /\ wire = <<>>
    /\ Constructed

NextLink ==
    \/ Handlers
    \/ device_answers
    \/ serial_reader_loop
    \/ serial_reader_check
    \/ \E n \in 0..MaxBytes, read_ok \in BOOLEAN :
            serial_reader_read(n, read_ok)
    \/ serial_reader_frame
    \/ process_rx_queue
    \/ on_close

SpecLink == InitLink /\ [][NextLink]_vars

(* ---------------------------------------------------------------------- *)
(* The link with a device that also sends lines of other forms             *)
(* ---------------------------------------------------------------------- *)

\* lines the device may send besides its answer: a timing without a tag, a
\* timing with a tag, an error code without a tag, and text
OtherLines ==
    { <<"1", "\n">>, <<"A", "1", "\n">>, <<"E", "0", "\n">>, <<"x", "\n">> }

\* the device sends one of these lines before it answers the last command
device_sends_other ==
    /\ tx_count > 0
    /\ answered_for # <<session, tx_count, tx_last>>
    /\ \E other \in OtherLines :
            /\ Len(delivered) + Len(wire) + Len(other) <= MaxWire
            /\ wire' = wire \o other
    /\ UNCHANGED <<processVars, storeVars, stop_event, reader_pc, buffer,
                   rx_queue, delivered, published, close_outcome,
                   answered_for, dialog,
                   screen, start_info, game_mode, nameVars, sessionVars,
                   buttonVars, labelVars, boardVars, timers, historyVars>>

NextOther == NextLink \/ device_sends_other

SpecOther == InitLink /\ [][NextOther]_vars

(* ---------------------------------------------------------------------- *)
(* The link with a device that answers every command with its timing       *)
(* ---------------------------------------------------------------------- *)

\* the timing lines the device sends for a command: one line, or one line
\* of each player; the timing reported is the number of the session
TimingAnswer(s) ==
    IF variant = "user" /\ game_mode = "multiplayer"
    THEN <<"A", DigitOf(s), "\n", "B", DigitOf(s), "\n">>
    ELSE <<DigitOf(s), "\n">>

\* the device answers the last command written, once, with its timing
device_answers_timing ==
    /\ tx_count > 0
    /\ answered_for # <<session, tx_count, tx_last>>
    /\ wire' = wire \o TimingAnswer(session)
    /\ answered_for' = <<session, tx_count, tx_last>>
    /\ UNCHANGED <<processVars, storeVars, stop_event, reader_pc, buffer,
                   rx_queue, delivered, published, close_outcome, dialog,
                   screen, start_info, game_mode, nameVars, sessionVars,
                   buttonVars, labelVars, boardVars, timers, historyVars>>

\* ser.read(64) on a working port: it returns bytes when the device has
\* sent some, and nothing after the timeout otherwise
serial_reader_read_available ==
    \E n \in 0..MaxWire :
        /\ wire # <<>> => n >= 1
        /\ serial_reader_read(n, TRUE)

\* the reader thread takes its next step: one of the four is enabled,
\* chosen by the position of the thread
serial_reader_runs ==
    \/ serial_reader_loop
    \/ serial_reader_check
    \/ serial_reader_read_available
    \/ serial_reader_frame

\* send_round_command runs and its write succeeds
send_round_command_written ==
    \E i \in 1..MaxTimers, draw \in SomeDraws :
        send_round_command(i, TRUE, draw[1], draw[2])

\* on_start_round_clicked of SP_debug.py, its write succeeds
debug_round_written ==
    \E draw \in SomeDraws :
        debug_on_start_round_clicked(TRUE, draw[1], draw[2])

\* the reveal timer of either mode fires
reveal_fires ==
    \/ \E i \in 1..MaxTimers : show_final_results(i)
    \/ \E i \in 1..MaxTimers : show_final_multiplayer_results(i)

\* the user leaves a session for the menu only when it has ended
back_after_the_end ==
    /\ terminal # "no"
    /\ on_back_to_start_clicked

NextLive ==
    \/ \E mode \in {"single", "multiplayer"} : select_mode(mode)
    \/ \E name_text \in NameInputs, a_text \in NameInputs,
          b_text \in NameInputsB, rounds \in RoundChoices :
            on_start_game_clicked(name_text, a_text, b_text, rounds)
    \/ \E name_text \in NameInputs, rounds \in RoundChoices :
            debug_on_start_game_clicked(name_text, rounds)
    \/ on_start_round_clicked
    \/ back_after_the_end
    \/ send_round_command_written
    \/ debug_round_written
    \/ reveal_fires
    \/ device_answers_timing
    \/ serial_reader_runs
    \/ process_rx_queue

\* Tk runs every callback that is due, the reader thread and the device
\* keep running, and the user presses the round button when it is offered
FairLive ==
    /\ WF_vars(on_start_round_clicked)
    /\ WF_vars(send_round_command_written)
    /\ WF_vars(debug_round_written)
    /\ WF_vars(reveal_fires)
    /\ WF_vars(device_answers_timing)
    /\ WF_vars(serial_reader_runs)
    /\ WF_vars(process_rx_queue)

SpecLive == InitLink /\ [][NextLive]_vars /\ FairLive

(* ---------------------------------------------------------------------- *)
(* The program with a device that sends signed values                      *)
(* ---------------------------------------------------------------------- *)

\* lines with a sign before the digits, and the lines that let every
\* session run to its end
SignedMsgs ==
    { <<"-", "1">>, <<"A", "-", "1">>,
      <<"1">>, <<"B", "2">>, <<"A", "E", "0">> }

NextSigned ==
    \/ Handlers
    \/ \E line \in SignedMsgs : process_rx_line(line)

SpecSigned == Init /\ [][NextSigned]_vars

(* ---------------------------------------------------------------------- *)
(* The program with every draw of the round command                        *)
(* ---------------------------------------------------------------------- *)

\* lines that let every session run to its end
CommandMsgs ==
    { <<"1">>, <<"A", "1">>, <<"B", "2">>, E0, <<"A", "E", "0">> }

NextCommand ==
    \/ HandlersOn(Draws)
    \/ \E line \in CommandMsgs : process_rx_line(line)

SpecCommand == Init /\ [][NextCommand]_vars

(* ---------------------------------------------------------------------- *)
(* Properties                                                              *)
(* ---------------------------------------------------------------------- *)

\* a session was started and its game screen is shown
InSession == session > 0 /\ screen = "game"

\* the session fields a message may touch, and how the session ended
SessionView ==
    <<current_round, round_times, player_a_times, player_b_times,
      waiting_for_result, terminal, btn_cmd, btn_state>>

\* C1: a message handled while no round is in flight (waiting_for_result
\* false) leaves the session as it was: rounds completed, the timing
\* sequences, waiting_for_result, and whether the session counts as ended
C1_NoEffectOutsideRound ==
    [][\A line \in Msgs :
          (InSession /\ ~waiting_for_result /\ handle_serial_line(line))
              => UNCHANGED SessionView]_vars

\* the pending callback at position i is a deferred send whose session was
\* left since: another session was started or the menu is shown
StaleSend(i) ==
    /\ timers[i].kind = "send_round_command"
    /\ (timers[i].sid # session \/ screen # "game")

\* C2: a deferred send whose session was aborted to the menu or replaced by
\* a new session is cancelled: it writes no command and does not set
\* waiting_for_result
C2_StaleSendCancelled ==
    [][\A i \in DOMAIN timers, write_ok \in BOOLEAN :
          (StaleSend(i) /\ \E draw \in Draws :
                send_round_command(i, write_ok, draw[1], draw[2]))
              => /\ tx_count' = tx_count
                 /\ waiting_for_result' => waiting_for_result]_vars

\* the line is a timing of this player: the tag followed by an integer
TaggedTiming(line, tag) ==
    LET line_stripped == Strip(line)
    IN  /\ StartsWith(line_stripped, tag)
        /\ Tail(line_stripped) \notin {E0, E1}
        /\ IsInt(Tail(line_stripped))

\* the step appends one timing to exactly one of the two players' sequences
OneTimingAppended ==
    \/ /\ Len(player_a_times') = Len(player_a_times) + 1
       /\ SubSeq(player_a_times', 1, Len(player_a_times)) = player_a_times
       /\ player_b_times' = player_b_times
    \/ /\ Len(player_b_times') = Len(player_b_times) + 1
       /\ SubSeq(player_b_times', 1, Len(player_b_times)) = player_b_times
       /\ player_a_times' = player_a_times

\* C3: in a two-player session the round counter only moves, and the round
\* in flight only closes as complete, in a step that appends one tagged
\* timing and leaves both sequences equally long; a timing that leaves the
\* lengths different keeps the round in flight and lengthens only the
\* sender's sequence by one
C3_RoundClosesOnEqualLengths ==
    [][game_mode = "multiplayer" =>
          /\ (session' = session /\ current_round' # current_round)
                => /\ current_round' = current_round + 1
                   /\ waiting_for_result /\ ~waiting_for_result'
                   /\ OneTimingAppended
                   /\ Len(player_a_times') = Len(player_b_times')
          /\ \A line \in Msgs :
                ( /\ waiting_for_result
                  /\ TaggedTiming(line, "A")
                  /\ Len(player_a_times) + 1 # Len(player_b_times)
                  /\ handle_serial_line(line) )
                    => /\ waiting_for_result'
                       /\ current_round' = current_round
                       /\ Len(player_a_times') = Len(player_a_times) + 1
                       /\ player_b_times' = player_b_times
          /\ \A line \in Msgs :
                ( /\ waiting_for_result
                  /\ TaggedTiming(line, "B")
                  /\ Len(player_b_times) + 1 # Len(player_a_times)
                  /\ handle_serial_line(line) )
                    => /\ waiting_for_result'
                       /\ current_round' = current_round
                       /\ Len(player_b_times') = Len(player_b_times) + 1
                       /\ player_a_times' = player_a_times]_vars

\* two timings of player A and none of player B: the round is still in
\* flight and no round is counted
C3_Witness ==
    /\ game_mode = "multiplayer"
    /\ waiting_for_result
    /\ current_round = 0
    /\ player_a_times = <<1, 3>>
    /\ player_b_times = <<>>

\* C4: in a two-player session, when the round counter is incremented to k
\* both timing sequences hold exactly k entries
C4_OneTimingPerRound ==
    [][(/\ game_mode = "multiplayer"
        /\ session' = session
        /\ current_round' = current_round + 1)
          => /\ Len(player_a_times') = current_round'
             /\ Len(player_b_times') = current_round']_vars

\* a single-player session exists: it was started and the start screen of
\* another session is not shown
InSingleSession ==
    /\ game_mode = "single"
    /\ session > 0
    /\ variant = "user" => screen # "start"

C6_RoundsWithinTarget ==
    0 <= current_round /\ current_round <= selected_rounds

\* C7: once the session has ended, by completing its rounds or by an error
\* message, waiting_for_result is false until a new session starts
C7_EndedNotAwaiting ==
    terminal # "no" => ~waiting_for_result

\* the line is an error of player A or of player B
TaggedError(line) ==
    LET line_stripped == Strip(line)
    IN  /\ line_stripped # <<>>
        /\ Head(line_stripped) \in {"A", "B"}
        /\ Tail(line_stripped) \in {E0, E1}

\* the player who did not send the error
OtherPlayer(line) == IF Head(Strip(line)) = "A" THEN "B" ELSE "A"

\* C8: in a two-player session with a round in flight a tagged error ends
\* the session at once with the other player as winner; from then on no
\* message changes the session and the leaderboard is not updated
C8_TaggedErrorEndsSession ==
    [][(InSession /\ game_mode = "multiplayer") =>
          /\ \A line \in Msgs :
                (waiting_for_result /\ TaggedError(line)
                   /\ handle_serial_line(line))
                    => /\ ~waiting_for_result'
                       /\ winner' = OtherPlayer(line)
                       /\ leaderboard' = leaderboard
          /\ (terminal = "error" /\ session' = session)
                => /\ leaderboard' = leaderboard
                   /\ \A line \in Msgs :
                         handle_serial_line(line) =>
                             UNCHANGED <<current_round, player_a_times,
                                         player_b_times, waiting_for_result>>
       ]_vars

\* C9: in a single-player session with a round in flight, E0 or E1 clears
\* waiting_for_result and ends the session, and leaves the timings, the
\* round counter and the leaderboard as they were
C9_ErrorKeepsTimings ==
    [][\A line \in Msgs :
          ( /\ game_mode = "single"
            /\ waiting_for_result
            /\ Strip(line) \in {E0, E1}
            /\ handle_serial_line(line) )
              => /\ ~waiting_for_result'
                 /\ terminal' # "no"
                 /\ round_times' = round_times
                 /\ current_round' = current_round
                 /\ leaderboard' = leaderboard]_vars

\* the second round of a single-player session was in flight when E0
\* arrived: two commands written, one timing kept, the game over shown
C9_Witness ==
    /\ variant = "user"
    /\ game_mode = "single"
    /\ screen = "game"
    /\ tx_count = 2
    /\ current_round = 1
    /\ round_times = <<2>>
    /\ terminal = "error"
    /\ status = "too_early"
    /\ ~waiting_for_result

\* C10: after the session has ended nothing of that session transmits a
\* command, records a timing or counts a round
C10_EndedIsAbsorbing ==
    [][(terminal # "no" /\ session' = session)
          => /\ tx_count' = tx_count
             /\ current_round' = current_round
             /\ round_times' = round_times
             /\ player_a_times' = player_a_times
             /\ player_b_times' = player_b_times]_vars

\* the round button is pressed, in either program
RoundRequested ==
    \/ on_start_round_clicked
    \/ \E write_ok \in BOOLEAN, draw \in Draws :
            debug_on_start_round_clicked(write_ok, draw[1], draw[2])

\* C11: a round requested while a round is in flight, or when the rounds
\* of the session are all played, defers no command, writes nothing to the
\* device and leaves the round counter, the timing sequences and
\* waiting_for_result as they were
C11_RefusedRequestChangesNothing ==
    [][((waiting_for_result \/ current_round >= selected_rounds)
          /\ RoundRequested)
          => /\ timers' = timers
             /\ tx_count' = tx_count
             /\ UNCHANGED <<current_round, round_times, player_a_times,
                            player_b_times, waiting_for_result>>]_vars

\* the round button of SP_user.py was pressed while a round was in flight
\* and the request was refused
C11_Witness ==
    /\ variant = "user"
    /\ screen = "game"
    /\ waiting_for_result
    /\ status = "please_wait"
    /\ btn_state = "normal" /\ btn_cmd = "start_round"

\* the write of a round command fails, in either program
WriteFails ==
    \/ \E i \in DOMAIN timers, draw \in Draws :
            send_round_command(i, FALSE, draw[1], draw[2])
    \/ /\ ser = "open" /\ ~waiting_for_result
       /\ current_round < selected_rounds
       /\ \E draw \in Draws :
            debug_on_start_round_clicked(FALSE, draw[1], draw[2])

\* a press of the round button would be accepted: the button is there to
\* be pressed and on_start_round_clicked gets past its three checks
RequestAccepted ==
    /\ running /\ ~dialog
    /\ screen = "game" /\ btn_state = "normal"
    /\ variant = "user" => btn_cmd = "start_round"
    /\ ser = "open"
    /\ ~waiting_for_result
    /\ current_round < selected_rounds

\* C12: when the write of a round command fails in a session that is in
\* progress with no round in flight, waiting_for_result stays false, the
\* round counter and the timing sequences are unchanged, and the round can
\* be requested again
C12_FailedWriteKeepsRound ==
    [][(InSession /\ terminal = "no" /\ ~waiting_for_result /\ WriteFails)
          => /\ ~waiting_for_result'
             /\ tx_count' = tx_count
             /\ UNCHANGED <<current_round, round_times, player_a_times,
                            player_b_times>>
             /\ RequestAccepted']_vars

IsQuotient(value, total, count) ==
    /\ count > 0
    /\ value[1] * count = total * value[2]

\* C14: in single-player mode the average that is reported is the sum of
\* exactly selected_rounds timings of the session divided by
\* selected_rounds: the one show_final_results displays in SP_user.py,
\* the one SP_debug.py enters on the leaderboard with the last timing
C14_AverageOfTargetTimings ==
    [][game_mode = "single" =>
          /\ (round_times # <<>>
                /\ \E i \in DOMAIN timers : show_final_results(i))
                => /\ Len(round_times) = selected_rounds
                   /\ last_result'.text = "average"
                   /\ IsQuotient(last_result'.value, Sum(round_times),
                                 selected_rounds)
          /\ (variant = "debug" /\ leaderboard' # leaderboard)
                => /\ Len(round_times') = selected_rounds
                   /\ LET board == leaderboard'[selected_rounds]
                      IN  /\ board # <<>>
                          /\ IsQuotient(board[Len(board)][2],
                                        Sum(round_times'), selected_rounds)
       ]_vars

\* the mean of the timings xs is strictly lower than the mean of ys
MeanLower(xs, ys) == Sum(xs) * Len(ys) < Sum(ys) * Len(xs)

\* the name the winner is entered under on the leaderboard after this step
WinnerName(name) ==
    \E k \in DOMAIN leaderboard'[selected_rounds] :
        leaderboard'[selected_rounds][k][1] = name

\* C15: when the result of a two-player session is revealed, player A is
\* the winner exactly if A's mean timing is strictly lower, player B
\* exactly if B's is, and with equal means a tie is reported and entered
\* under both names together
C15_LowerMeanWins ==
    [][(player_a_times # <<>> /\ player_b_times # <<>>
          /\ \E i \in DOMAIN timers : show_final_multiplayer_results(i))
          => /\ winner' = "A" <=> MeanLower(player_a_times, player_b_times)
             /\ winner' = "B" <=> MeanLower(player_b_times, player_a_times)
             /\ winner' = "tie" <=>
                   Sum(player_a_times) * Len(player_b_times)
                      = Sum(player_b_times) * Len(player_a_times)
             /\ winner' = "A" => WinnerName(player_a_name)
             /\ winner' = "B" => WinnerName(player_b_name)
             /\ winner' = "tie" => WinnerName(TieName)]_vars

\* a two-player session of one board was revealed as a tie: equal means
\* from different timings
C15_Witness ==
    /\ game_mode = "multiplayer"
    /\ screen = "game"
    /\ player_a_times = <<1, 3>>
    /\ player_b_times = <<2, 2>>
    /\ winner = "tie"
    /\ status = "winner"
    /\ btn_cmd = "back"

\* the averages submitted so far for this board and name
SubmittedFor(rounds, name) ==
    {submitted[k][3] : k \in {j \in DOMAIN submitted :
                                submitted[j][1] = rounds
                                /\ submitted[j][2] = name}}

C17_OneEntryPerName ==
    \A rounds \in Boards :
        \A i, j \in DOMAIN leaderboard[rounds] :
            leaderboard[rounds][i][1] = leaderboard[rounds][j][1] => i = j

\* C18: every entry is made for a session that completed.  When a reveal
\* reaches update_leaderboard_entry it was scheduled by the current
\* session, and that session completed: its round counter is
\* selected_rounds; SP_debug.py enters a result only in the step that
\* completes the session
C18_UpdateOnlyForCompletedSession ==
    [][/\ \A i \in 1..MaxTimers :
             (show_final_results(i) /\ round_times # <<>>)
                => /\ timers[i].sid = session
                   /\ terminal = "complete"
                   /\ current_round = selected_rounds
       /\ \A i \in 1..MaxTimers :
             (/\ show_final_multiplayer_results(i)
              /\ player_a_times # <<>>
              /\ player_b_times # <<>>)
                => /\ timers[i].sid = session
                   /\ terminal = "complete"
                   /\ current_round = selected_rounds
       /\ (variant = "debug" /\ leaderboard' # leaderboard)
             => /\ terminal' = "complete"
                /\ current_round' = selected_rounds]_vars

\* the arrangements of the positions of a board
Arrangements(board) ==
    {p \in [DOMAIN board -> DOMAIN board] :
        \A k, l \in DOMAIN board : p[k] = p[l] => k = l}

\* arrangement p puts the board in ascending order of average and keeps
\* entries of equal average in the order of the board
IsRanking(board, p) ==
    \A k, l \in DOMAIN board :
        k < l => /\ ~AvgLess(board[p[l]][2], board[p[k]][2])
                 /\ ~AvgLess(board[p[k]][2], board[p[l]][2]) => p[k] < p[l]

\* C19: update_leaderboard_ui leaves the leaderboard as it is and fills
\* each listbox with exactly the entries of its board, in ascending order
\* of average, entries of equal average in the order they have on the board
C19_RankedAscendingStable ==
    [][call_update_leaderboard_ui
          => /\ leaderboard' = leaderboard
             /\ \A rounds \in Boards :
                   LET board == leaderboard[rounds]
                   IN  \E p \in Arrangements(board) :
                          /\ IsRanking(board, p)
                          /\ lb_entries'[rounds] =
                                 [k \in DOMAIN board |-> Line(board[p[k]])]
      ]_vars

\* board 5 holds 250.0 before two entries of 210.0, and its listbox shows
\* the two of 210.0 first, in the order of the board
C19_Witness ==
    /\ leaderboard[5] = << <<(<<"a">>), <<250, 1>>>>, <<(<<"c">>), <<210, 1>>>>,
                           <<(<<"b">>), <<210, 1>>>> >>
    /\ lb_entries[5] = << [name |-> <<"c">>, tenths |-> 2100],
                          [name |-> <<"b">>, tenths |-> 2100],
                          [name |-> <<"a">>, tenths |-> 2500] >>

\* the file holds a leaderboard: a JSON object in which every key present
\* is a list of entries
WellFormed(f) ==
    /\ f.kind = "object"
    /\ \A key \in BoardKeys :
          f.boards[key].type = "absent" \/ IsEntryList(f.boards[key])

\* C20: load_leaderboard returns to __init__ whatever the file, and when
\* the file does not hold a leaderboard all three boards are empty after it
C20_LoadTolerant ==
    load_outcome # "none"
        => /\ load_outcome = "returned"
           /\ ~WellFormed(file) => leaderboard = EmptyBoard

\* the bytes of the lines put so far, each followed by the delimiter that
\* was dropped after it
RECURSIVE Framed(_)
Framed(puts) ==
    IF puts = <<>> THEN <<>>
    ELSE LET put == Head(puts)
             own == IF put.kind # "line" THEN <<>>
                    ELSE IF put.sep = "" THEN put.bytes
                    ELSE Append(put.bytes, put.sep)
         IN  own \o Framed(Tail(puts))

\* C21 as stated: once the extraction loop has stopped, the lines put,
\* each with its dropped delimiter, make up all the bytes the reads have
\* returned
C21_FramedIsAllDelivered ==
    reader_pc # "frame" => Framed(published) = delivered

\* C21: at any time and for any split of the bytes into reads, the lines
\* put, each with its dropped delimiter, followed by the bytes the reader
\* holds back in its buffer, make up the bytes the reads have returned; no
\* line holds a delimiter, and a line without one has 3 bytes
C21_FramedAndBufferIsDelivered ==
    /\ Framed(published) \o buffer = delivered
    /\ \A k \in DOMAIN published :
          published[k].kind = "line"
              => /\ \A j \in DOMAIN published[k].bytes :
                        published[k].bytes[j] \notin Delimiters
                 /\ published[k].sep = "" => Len(published[k].bytes) = 3

\* a line ended by "\n" was put, two bytes are held back, and the
\* extraction loop has stopped
C21_Witness ==
    /\ reader_pc = "loop"
    /\ delivered = <<"1", "\n", "1", "1">>
    /\ published = <<[kind |-> "line", bytes |-> <<"1">>, sep |-> "\n",
                      stopped |-> FALSE]>>
    /\ buffer = <<"1", "1">>

\* C22: a read that fails puts one sentinel in the queue and ends the
\* reader, leaving the port and the main loop as they are; a reader that
\* has ended stays ended and puts nothing more
C22_SentinelThenExit ==
    [][/\ (\E n \in 0..MaxBytes : serial_reader_read(n, FALSE))
             => /\ reader_pc' = "done"
                /\ rx_queue' = Append(rx_queue, Sentinel)
                /\ Len(published') = Len(published) + 1
                /\ published'[Len(published')].kind = "error"
                /\ UNCHANGED <<ser, running, close_outcome>>
       /\ reader_pc = "done"
             => /\ reader_pc' = "done"
                /\ published' = published
                /\ ser' # "open" \/ ser = "open"]_vars

\* the reader has ended on a failed read after it had put a line
C22_Witness ==
    /\ reader_pc = "done"
    /\ Len(published) = 2
    /\ published[1].kind = "line"
    /\ published[2].kind = "error"
    /\ ser = "open"
    /\ ~stop_event

\* C23: when the sentinel of the reader is taken from the queue while a
\* round is in flight, the session does not go on waiting for a result
C23_SentinelEndsTheWait ==
    [][(/\ InSession /\ waiting_for_result
        /\ rx_queue # <<>> /\ Head(rx_queue) = Sentinel
        /\ reader_pc = "done"
        /\ process_rx_queue)
          => ~waiting_for_result']_vars

\* C24: once the stop signal is set the reader publishes no message: no
\* line framed from the bytes of a read, and no sentinel
C24_NoPutAfterStop ==
    \A k \in DOMAIN published : ~published[k].stopped

C26_LateResultDiscarded ==
    InSession =>
        LET times == IF variant = "user" /\ game_mode = "multiplayer"
                     THEN player_a_times \o player_b_times
                     ELSE round_times
        IN  \A k \in DOMAIN times : times[k] = session

\* C27: every timing recorded, of the single player, of player A and of
\* player B, is a non-negative integer
C27_TimingsNonNegative ==
    \A k \in DOMAIN (round_times \o player_a_times \o player_b_times) :
        (round_times \o player_a_times \o player_b_times)[k] >= 0

\* the bytes are a command of the form <prefix><color><digit> and a newline
IsCommand(cmd, prefix) ==
    /\ Len(cmd) = 4
    /\ cmd[1] = prefix
    /\ cmd[2] \in {"R", "G", "B", "C", "M", "Y", "W"}
    /\ cmd[3] \in {"2", "3", "4", "5", "6"}
    /\ cmd[4] = "\n"

\* the prefix of the commands of a game of this mode
PrefixOf(mode) == IF mode = "single" THEN "S" ELSE "M"

\* C28: every command written has the form <prefix><color><digit> and a
\* newline, with the prefix of the mode of the session the round was
\* requested in: by the deferred send of SP_user.py the mode the game had
\* when the round button was pressed, by SP_debug.py always S
C28_CommandOfRequestingMode ==
    [][/\ \A i \in DOMAIN timers, draw \in Draws :
            send_round_command(i, TRUE, draw[1], draw[2])
                => IsCommand(tx_last', PrefixOf(timers[i].mode))
       /\ \A draw \in Draws :
            (debug_on_start_round_clicked(TRUE, draw[1], draw[2])
                /\ tx_count' # tx_count)
                => IsCommand(tx_last', "S")]_vars

\* what a program started on this file loads from it
Reloaded(f) == LoadBoards(f.boards, EmptyBoard, 1)

\* the file holds this leaderboard: loading it raises nothing and gives the
\* same three boards, entry by entry
Persisted(f, lb) ==
    /\ f.kind = "object"
    /\ Reloaded(f) = [leaderboard |-> lb, raised |-> FALSE]

\* C29: when a session completes, the in-memory leaderboard holds the
\* result and the result is shown whether or not the write succeeds; the
\* file is left as it was by a failed write, and otherwise loading it gives
\* the in-memory leaderboard back
C29_PersistedIsInMemory ==
    [][\A i \in DOMAIN timers :
          /\ (show_final_results(i) /\ round_times # <<>>)
                => /\ leaderboard' =
                       update_leaderboard_entry(leaderboard, selected_rounds,
                                                player_name,
                                                Mean(round_times))
                   /\ status' = "congratulations"
                   /\ last_result' = Shown("average", Mean(round_times))
                   /\ (Persisted(file', leaderboard') \/ file' = file)
          /\ (/\ show_final_multiplayer_results(i)
              /\ player_a_times # <<>> /\ player_b_times # <<>>)
                => /\ \E name \in {player_a_name, player_b_name, TieName},
                          avg \in {Mean(player_a_times), Mean(player_b_times)} :
                            leaderboard' =
                                update_leaderboard_entry(leaderboard,
                                                         selected_rounds,
                                                         name, avg)
                   /\ status' = "winner"
                   /\ (Persisted(file', leaderboard') \/ file' = file)]_vars

\* a session has completed, its result is on the leaderboard and the file
\* written holds the same leaderboard
C29_Witness ==
    /\ variant = "user"
    /\ status \in {"congratulations", "winner"}
    /\ leaderboard # EmptyBoard
    /\ Persisted(file, leaderboard)

\* C30: while waiting_for_result is true no round command is written to
\* the device
C30_NoCommandWhileWaiting ==
    [][waiting_for_result => tx_count' # tx_count + 1]_vars

\* the buffer holds a delimiter
HasDelimiter(buf) == \E k \in DOMAIN buf : buf[k] \in Delimiters

\* C31: a turn of the extraction loop on a buffer that holds a delimiter
\* emits the bytes before the earliest delimiter, however many, and drops
\* that one delimiter; three bytes are taken as a message only from a
\* buffer without a delimiter; no message emitted holds a delimiter
C31_EarliestDelimiterFrames ==
    [][serial_reader_frame =>
          /\ HasDelimiter(buffer) =>
                \E k \in DOMAIN buffer :
                    /\ buffer[k] \in Delimiters
                    /\ \A j \in 1..(k - 1) : buffer[j] \notin Delimiters
                    /\ Len(published') = Len(published) + 1
                    /\ published'[Len(published')].bytes =
                           SubSeq(buffer, 1, k - 1)
                    /\ published'[Len(published')].sep = buffer[k]
                    /\ rx_queue' =
                           Append(rx_queue, Decode(SubSeq(buffer, 1, k - 1)))
                    /\ buffer' = SubSeq(buffer, k + 1, Len(buffer))
          /\ (/\ Len(published') = Len(published) + 1
              /\ published'[Len(published')].sep = "")
                => ~HasDelimiter(buffer)
          /\ \A k \in DOMAIN published' :
                ~HasDelimiter(published'[k].bytes)]_vars

\* the reader has framed a line ended by "\r\n": the line, and after it
\* one empty message
C31_Witness ==
    \E k \in DOMAIN published :
        /\ k + 1 \in DOMAIN published
        /\ published[k].bytes # <<>> /\ published[k].sep = "\r"
        /\ published[k + 1].bytes = <<>> /\ published[k + 1].sep = "\n"

\* C32: every turn of the extraction loop either shortens the buffer and
\* goes on, or ends the loop on a buffer of fewer than three bytes without
\* a delimiter; so the loop ends, and three bytes without a terminator do
\* not wait in the buffer
C32_ExtractionEndsOnShortTail ==
    [][serial_reader_frame =>
          /\ reader_pc' = "frame" => Len(buffer') < Len(buffer)
          /\ reader_pc' # "frame" =>
                /\ Len(buffer') < 3
                /\ ~HasDelimiter(buffer')
                /\ buffer' = buffer]_vars

\* three bytes without a terminator were emitted as a message and the loop
\* has ended with one byte held back
C32_Witness ==
    /\ reader_pc = "loop"
    /\ Len(buffer) = 1
    /\ \E k \in DOMAIN published :
            published[k].sep = "" /\ Len(published[k].bytes) = 3

\* the text the reader put on the queue with a recorded put
PutText(p) == IF p.kind = "line" THEN Decode(p.bytes) ELSE Sentinel

\* the texts of the puts after the first n, oldest first
PutsAfter(n) == [k \in 1..(Len(published) - n) |-> PutText(published[n + k])]

\* C33: under every interleaving of the reader thread and the drain of the
\* controller the queue holds exactly the published messages not handled
\* yet, in the order they were framed; the queue changes only by a put of
\* the reader at its end or by the drain handing its oldest message to
\* handle_serial_line and removing exactly that one, so that no message is
\* lost, handled twice or overtaken; and the reader, at a step that puts,
\* never waits for the queue
C33_QueueHandsOverInOrder ==
    /\ [](/\ Len(rx_queue) <= Len(published)
          /\ rx_queue = PutsAfter(Len(published) - Len(rx_queue))
          /\ reader_pc = "frame" => ENABLED serial_reader_frame
          /\ reader_pc = "read" =>
                ENABLED (\E n \in 0..MaxBytes, read_ok \in BOOLEAN :
                             serial_reader_read(n, read_ok)))
    /\ [][(rx_queue' # rx_queue \/ published' # published) =>
             \/ /\ Len(published') = Len(published) + 1
                /\ SubSeq(published', 1, Len(published)) = published
                /\ rx_queue' =
                       Append(rx_queue, PutText(published'[Len(published')]))
             \/ /\ published' = published
                /\ rx_queue # <<>>
                /\ rx_queue' = Tail(rx_queue)
                /\ handle_serial_line(Head(rx_queue))]_vars

\* C33 witness: two different messages were published, the older one has
\* been handled and recorded as a timing while the reader is still framing,
\* and the newer one waits in the queue
C33_Witness ==
    /\ Len(published) >= 2
    /\ PutText(published[1]) # PutText(published[2])
    /\ rx_queue = PutsAfter(Len(published) - 1)
    /\ reader_pc = "frame"
    /\ current_round >= 1

\* the pending callback at position i runs now
CallbackRuns(i) ==
    \/ \E write_ok \in BOOLEAN, draw \in Draws :
            send_round_command(i, write_ok, draw[1], draw[2])
    \/ show_final_results(i)
    \/ show_final_multiplayer_results(i)
    \/ show_multiplayer_error_results(i)

\* C34: a start that is accepted, whatever came before, leaves no round
\* played, every timing sequence empty and no round in flight; and a
\* callback left pending by an earlier session (a deferred send, a reveal
\* timer) that runs after the start leaves the fields of the new session as
\* they are
C34_StartIsClean ==
    [][/\ session' = session + 1 =>
              /\ current_round' = 0
              /\ round_times' = <<>>
              /\ player_a_times' = <<>>
              /\ player_b_times' = <<>>
              /\ ~waiting_for_result'
       /\ \A i \in DOMAIN timers :
              (timers[i].sid # session /\ CallbackRuns(i))
                  => UNCHANGED sessionVars]_vars

\* the line is neither a timing nor an error code for the handler that
\* handle_serial_line chooses now
NotForMode(line) ==
    LET line_stripped == Strip(line)
    IN  IF variant = "user" /\ game_mode # "single"
        THEN ~(/\ StartsWith(line_stripped, "A")
                     \/ StartsWith(line_stripped, "B")
               /\ \/ IsInt(Tail(line_stripped))
                  \/ Tail(line_stripped) \in {E0, E1})
        ELSE ~IsInt(line_stripped) /\ line_stripped \notin {E0, E1}

\* C35: with a round in flight, a line taken from the queue that is neither
\* a timing nor an error code for the current mode (in a single-player
\* session any text that is not an integer and not E0 or E1, tagged lines
\* and the sentinel among them; in a two-player session any text that is
\* not A or B followed by an integer or by E0 or E1, untagged integers and
\* untagged error codes among them) leaves the session as it was, and the
\* round stays in flight
C35_OtherLinesIgnored ==
    [][(/\ waiting_for_result
        /\ rx_queue # <<>>
        /\ NotForMode(Head(rx_queue))
        /\ process_rx_queue)
          => UNCHANGED <<sessionVars, terminal, timers>>]_vars

\* C35 witness: in the first round of a two-player session the device sent
\* E0 without a tag; the line was taken from the queue and the round is
\* still in flight with nothing recorded
C35_Witness ==
    /\ variant = "user"
    /\ game_mode = "multiplayer"
    /\ InSession /\ session = 1 /\ tx_count = 1
    /\ waiting_for_result
    /\ terminal = "no"
    /\ Len(published) = 1
    /\ PutText(published[1]) = E0
    /\ rx_queue = <<>>
    /\ player_a_times = <<>> /\ player_b_times = <<>>

\* no reveal timer is pending
NoRevealPending ==
    \A i \in DOMAIN timers :
        timers[i].kind \notin {"show_final_results",
                               "show_final_multiplayer_results"}

\* the session is complete: as many commands were written and as many
\* rounds counted as were selected, no round is in flight, the result was
\* revealed and the board of the session holds an entry
SessionComplete ==
    /\ terminal = "complete"
    /\ tx_count = selected_rounds
    /\ current_round = selected_rounds
    /\ ~waiting_for_result
    /\ NoRevealPending
    /\ leaderboard[selected_rounds] # <<>>
    /\ variant = "user" => btn_cmd = "back"

\* a session whose rounds fit the bound on recorded timings is not complete
SessionOpen ==
    /\ InSession
    /\ selected_rounds <= MaxTimes
    /\ ~SessionComplete

\* a command is out whose timing fits the bound on recorded timings
RoundOpen == waiting_for_result /\ tx_count <= MaxTimes

\* C36: with the port open, the reader thread running, every write
\* succeeding, a device that answers every command with one timing (one of
\* each player in a two-player session) and a user who presses the round
\* button whenever it is offered, no round stays in flight for ever and a
\* round ends by being counted; no session whose rounds fit the bound on
\* recorded timings stays incomplete for ever, and it ends by being
\* complete after exactly as many commands as rounds were selected; the
\* leaderboard changes only when the one reveal timer of the session fires
\* (in SP_debug.py: when the last timing is recorded)
C36_SessionCompletes ==
    /\ []<>(~SessionOpen)
    /\ []<>(~RoundOpen)
    /\ [][/\ (SessionOpen /\ ~SessionOpen') =>
                 (SessionComplete' /\ session' = session)
          /\ (RoundOpen /\ ~RoundOpen') =>
                 /\ session' = session
                 /\ tx_count' = tx_count
                 /\ current_round' = tx_count
                 /\ ~waiting_for_result'
          /\ leaderboard' # leaderboard =>
                 /\ terminal' = "complete"
                 /\ current_round' = selected_rounds
                 /\ tx_count = selected_rounds
                 /\ NoRevealPending'
                 /\ variant = "user" => ~NoRevealPending]_vars

\* C36 witness: the first session, of one round and two players, is
\* complete: one command was written, both timings are recorded and the
\* result is on the board of one round
C36_Witness ==
    /\ variant = "user"
    /\ game_mode = "multiplayer"
    /\ session = 1
    /\ SessionComplete
    /\ selected_rounds = 1
    /\ player_a_times = <<1>> /\ player_b_times = <<1>>
    /\ Len(leaderboard[1]) = 1

\* the entries of this board under this name
EntriesOf(board, name) == {k \in DOMAIN board : board[k][1] = name}

\* C37: when the result of a two-player session is revealed, the reveal
\* belongs to the running session and makes exactly one upsert, on the board
\* of the rounds selected for the session: of the name and mean of the
\* player with the strictly lower mean when the means differ, the other
\* player getting no entry, and of both names together with the common mean
\* when the means are equal; the other boards stay as they are
C37_OneUpsertForTheWinner ==
    [][\A i \in DOMAIN timers :
          (/\ player_a_times # <<>> /\ player_b_times # <<>>
           /\ show_final_multiplayer_results(i))
          => LET a_lower == MeanLower(player_a_times, player_b_times)
                 b_lower == MeanLower(player_b_times, player_a_times)
                 name == IF a_lower THEN player_a_name
                         ELSE IF b_lower THEN player_b_name
                         ELSE TieName
                 mean == IF b_lower THEN Mean(player_b_times)
                         ELSE Mean(player_a_times)
                 loser == IF a_lower THEN player_b_name ELSE player_a_name
                 before == leaderboard[selected_rounds]
                 after == leaderboard'[selected_rounds]
             IN  /\ timers[i].sid = session
                 /\ leaderboard' =
                        update_leaderboard_entry(leaderboard,
                                                 selected_rounds, name, mean)
                 /\ \A rounds \in Boards \ {selected_rounds} :
                        leaderboard'[rounds] = leaderboard[rounds]
                 /\ Len(after) <= Len(before) + 1
                 /\ Cardinality(EntriesOf(after, name)) = 1
                 /\ ~a_lower /\ ~b_lower =>
                        Mean(player_a_times) = Mean(player_b_times)
                 /\ (a_lower \/ b_lower) /\ loser # name =>
                        /\ EntriesOf(after, loser) = EntriesOf(before, loser)
                        /\ \A k \in EntriesOf(after, loser) :
                               after[k] = before[k]]_vars

\* the reader thread is running: it was started and has not left its loop
ReaderAlive == reader_pc \notin {"none", "done"}

\* C38: whenever a start is accepted or a round command is written, and as
\* long as a round is in flight, the reader thread is running to deliver
\* the answer of the device
C38_ReaderAliveInFlight ==
    /\ []((running /\ waiting_for_result) => ReaderAlive)
    /\ [][(session' = session + 1 \/ tx_count' = tx_count + 1)
             => ReaderAlive']_vars

\* C39: when a reveal timer fires, every timing sequence it averages holds
\* at least one timing: round_times in a single-player reveal, the
\* sequences of both players in a two-player reveal
C39_MeanIsDefined ==
    [][\A i \in DOMAIN timers :
          /\ show_final_results(i) => round_times # <<>>
          /\ show_final_multiplayer_results(i) =>
                 (player_a_times # <<>> /\ player_b_times # <<>>)]_vars

====
